---- MODULE Spec2Model ----
(***************************************************************************)
(* State-machine model of the loan/arrears reporting pipeline:             *)
(*   - ArrearsProcessorAPI        (src/Arreas_collected.py)                *)
(*   - the two bucket policies    (src/Arreas_collected.py,                *)
(*                                 src/arrange_arrears.py,                 *)
(*                                 src/utils/report_generator.py)          *)
(*   - LoanReportGeneratorAPI     (src/arrange_Dues.py)                    *)
(*   - ArrearsRiskAnalyzer        (src/MTD_unpaid_dues.py)                 *)
(*   - EnterpriseDashboardAPI     (src/arrange_arrears.py), its officer    *)
(*                                 summary                                 *)
(*   - BranchDataProcessorAPI     (src/Dormant_Arrangement.py), the shared *)
(*                                 processor of the branch endpoints, and  *)
(*                                 ProcessingHistory                       *)
(*   - the chunked upload         (src/routes/v1/uploads.py,               *)
(*                                 src/models/upload_session.py) behind    *)
(*                                 require_auth (src/middleware/auth.py)   *)
(*   - the paginated endpoint     (src/routes/v1/loans.py,                 *)
(*                                 src/utils/pagination.py)                *)
(*   - ProgressTracker            (src/utils/progress.py)                  *)
(*                                                                         *)
(* Conventions                                                             *)
(*   - A spreadsheet cell is a tuple: <<>> is a missing cell (NaN), <<v>>  *)
(*     a numeric cell, <<0, 0>> a text cell that does not parse as number. *)
(*   - Money of the reconciler and of the loan report is an integer number *)
(*     of thousandths (0.001), so that the 2-decimal display rounding is a *)
(*     real conversion.                                                    *)
(*   - Money of the risk analyzer is a whole number of currency units; a   *)
(*     quantile is kept as denominator times value and a risk score as     *)
(*     ScoreScale times its value, so that both stay exact integers.       *)
(*   - Ages are an integer number of half days, so that fractional ages    *)
(*     (pd.to_numeric yields floats) are part of the domain.               *)
(*   - A text value is a sequence of one-character strings.                *)
(*   - A quotient that is kept exact is a pair <<numerator, denominator>>; *)
(*     <<1, 0>> and <<-1, 0>> are the infinities of a float division.      *)
(*   - With(e, LAMBDA x : body) is the assignment x = e followed by body.  *)
(***************************************************************************)
EXTENDS Integers, Sequences, FiniteSets, TLC

VARIABLES
    sod_file,          \* the start-of-day upload: [columns, rows]
    cur_file,          \* the current upload:      [columns, rows]
    arr_pc,            \* "ready" before ArrearsProcessorAPI.process, "done" after
    officer_targets,   \* ArrearsProcessorAPI.officer_targets
    df_collected,      \* process_data: the collected table
    df_merged,         \* process_data: the merged (left join) table
    officers,          \* process_data: unique_officers
    pivot,             \* create_formatted_table: rows before the display rounding
    final_df,          \* create_formatted_table: the returned table (rounded)
    result,            \* the dictionary process returns
    days,              \* bucket classifier: the age handed to the classifiers
    bucket_a,          \* Policy A label of days
    bucket_b,          \* Policy B label of days
    bucket_id,         \* Policy B ordinal of days
    report_bucket,     \* utils/report_generator.py: [Bucket, BucketID] of days
    loan_file,         \* the upload handed to LoanReportGeneratorAPI.generate_report
    loan_df,           \* LoanReportGeneratorAPI.df: [stage, rows]
    loan_final_df,     \* LoanReportGeneratorAPI.final_df: [built, rows]
    groups,            \* LoanReportGeneratorAPI.groups
    grand_totals,      \* LoanReportGeneratorAPI.grand_totals
    loan_result,       \* the dictionary generate_report returns
    loan_runs,         \* calls of generate_report on this object so far
    risk_file,         \* the upload handed to ArrearsRiskAnalyzer.analyze
    risk_pc,           \* "ready" before analyze, "done" after
    risk_df,           \* ArrearsRiskAnalyzer.df
    customer_risk,     \* ArrearsRiskAnalyzer.customer_risk: [scored, rows]
    summaries,         \* the tables of generate_summary_statistics
    risk_result,       \* the dictionary analyze returns
    df_clean,          \* EnterpriseDashboardAPI.df_clean
    pivot_rep,         \* generate_excel_report: [built, rows], the per-officer summary
    h_history,         \* ProcessingHistory.history
    h_index,           \* ProcessingHistory.current_index
    h_ret,             \* what the last add_state, undo or redo returned
    h_call,            \* the last call: [op, index, current] with the index and the
                       \* current state it found
    h_adds,            \* number of frames handed to add_state so far
    p_total,           \* ProgressTracker.total_steps
    p_step,            \* ProgressTracker.current_step
    p_start,           \* current_step when the threads were started
    p_cancelled,       \* ProgressTracker._cancelled
    p_lock,            \* ProgressTracker._lock: 0 when free, else the holding thread
    p_thr,             \* per thread: [pc, step], its position in increment and
                       \* the step it computed
    u_session,         \* the UploadSession row: [exists, total_chunks,
                       \* uploaded_chunks, status]
    u_files,           \* the chunk files in the session directory
    u_resp,            \* the last request to an upload endpoint and its answer
    b_df,              \* the module-level processor of Dormant_Arrangement: df
    b_branches,        \* processor.branches
    b_options,         \* processor.options
    b_client,          \* per client: what it loaded last and its last answer
    pg_records,        \* the rows of the file sent to /dormant-arrangement
    pg_limit,          \* the limit query parameter of the walk
    pg_cursor,         \* the after parameter of the next request of the walk
    pg_pages,          \* the pages received so far
    pg_last            \* the pagination object of the last answer

arr_vars == <<sod_file, cur_file, arr_pc, officer_targets, df_collected, df_merged,
              officers, pivot, final_df, result>>
bucket_vars == <<days, bucket_a, bucket_b, bucket_id, report_bucket>>
loan_vars == <<loan_file, loan_df, loan_final_df, groups, grand_totals, loan_result, loan_runs>>
risk_vars == <<risk_file, risk_pc, risk_df, customer_risk, summaries, risk_result>>
dash_vars == <<df_clean, pivot_rep>>
hist_vars == <<h_history, h_index, h_ret, h_call, h_adds>>
prog_vars == <<p_total, p_step, p_start, p_cancelled, p_lock, p_thr>>
upload_vars == <<u_session, u_files, u_resp>>
branch_vars == <<b_df, b_branches, b_options, b_client>>
page_vars == <<pg_records, pg_limit, pg_cursor, pg_pages, pg_last>>
svc_vars == <<hist_vars, prog_vars, upload_vars, branch_vars, page_vars>>
vars == <<arr_vars, bucket_vars, loan_vars, risk_vars, dash_vars, svc_vars>>

\* the components of the web service that are not in use in a run
HistIdle == h_history = <<>> /\ h_index = -1 /\ h_ret = <<>> /\ h_call = <<>> /\ h_adds = -1
ProgIdle ==
    /\ p_total = 0 /\ p_step = 0 /\ p_start = 0 /\ p_cancelled = FALSE
    /\ p_lock = 0 /\ p_thr = <<>>
UploadIdle == u_session = <<>> /\ u_files = {} /\ u_resp = <<>>
BranchIdle == b_df = <<>> /\ b_branches = <<>> /\ b_options = <<>> /\ b_client = <<>>
PageIdle ==
    /\ pg_records = <<>> /\ pg_limit = <<>> /\ pg_cursor = [walk |-> "off", after |-> <<>>]
    /\ pg_pages = <<>> /\ pg_last = <<>>
SvcIdle == HistIdle /\ ProgIdle /\ UploadIdle /\ BranchIdle /\ PageIdle

----------------------------------------------------------------------------
(* Cells and numbers *)

NaN == <<>>
TextCell == <<0, 0>>
Num(v) == <<v>>
isna(c) == c = NaN
IsNum(c) == Len(c) = 1

\* pd.to_numeric(errors='coerce'): what is not a number becomes NaN
to_numeric(c) == IF IsNum(c) THEN c ELSE NaN

\* fillna that leaves the missing cell missing
fillna_skipped(c, v) == c

\* Series.fillna(v)
fillna(c, v) == IF isna(c) THEN Num(v) ELSE c

\* n / d on two float columns, kept exact: <<n, d>>; a zero denominator gives
\* NaN for 0 / 0 and an infinity, <<1, 0>> or <<-1, 0>>, for any other numerator
true_divide(n, d) ==
    IF d # 0 THEN <<n, d>>
    ELSE IF n = 0 THEN NaN
    ELSE IF n > 0 THEN <<1, 0>> ELSE <<-1, 0>>

\* a - b on two columns: NaN where either side is NaN
Sub(a, b) == IF IsNum(a) /\ IsNum(b) THEN Num(a[1] - b[1]) ELSE NaN

\* pandas sums skip NaN
CellVal(c) == IF IsNum(c) THEN c[1] ELSE 0

RECURSIVE SumCells(_)
SumCells(s) == IF s = <<>> THEN 0 ELSE CellVal(Head(s)) + SumCells(Tail(s))

\* one cent, in thousandths
Cent == 10

\* round(x, 2) of x thousandths: to the nearest cent, ties to the even cent
Round2(x) ==
    LET q == x \div Cent
        r == x % Cent
    IN  IF 2 * r < Cent THEN q * Cent
        ELSE IF 2 * r > Cent THEN (q + 1) * Cent
        ELSE IF q % 2 = 0 THEN q * Cent ELSE (q + 1) * Cent

\* DataFrame.round(2) on a cell: NaN stays NaN
RoundCell(c) == IF IsNum(c) THEN Num(Round2(c[1])) ELSE c

\* a quotient n/d kept exact; round(n/d, 2) in thousandths
RoundRatio(n, d) ==
    LET h == (100 * n) \div d
        r == (100 * n) % d
    IN  IF 2 * r < d THEN h * Cent
        ELSE IF 2 * r > d THEN (h + 1) * Cent
        ELSE IF h % 2 = 0 THEN h * Cent ELSE (h + 1) * Cent

SeqToSet(s) == {s[i] : i \in 1..Len(s)}

\* an assignment x = e followed by the code F that reads x: e is computed once
With(e, F(_)) == CHOOSE r \in {F(x) : x \in {e}} : TRUE

----------------------------------------------------------------------------
(* Text *)

\* the characters of the model's texts, in code-point order
Alphabet == <<" ", "-", ".", "0", "1", "2", "3", "4", "5", "6", "7", "8", "9", ":",
              "A", "B", "C", "D", "E", "F", "G", "H", "I", "J", "K", "L", "M",
              "N", "O", "P", "Q", "R", "S", "T", "U", "V", "W", "X", "Y", "Z",
              "a", "b", "c", "d", "e", "f", "g", "h", "i", "j", "k", "l", "m",
              "n", "o", "p", "q", "r", "s", "t", "u", "v", "w", "x", "y", "z">>

CodePoint == [c \in {Alphabet[i] : i \in 1..Len(Alphabet)} |->
                CHOOSE i \in 1..Len(Alphabet) : Alphabet[i] = c]
Ord(c) == CodePoint[c]
FirstUpper == Ord("A")
FirstLower == Ord("a")
IsUpperCh(c) == Ord(c) >= FirstUpper /\ Ord(c) < FirstLower
IsLowerCh(c) == Ord(c) >= FirstLower
IsLetter(c) == IsUpperCh(c) \/ IsLowerCh(c)
ToUpperCh(c) == IF IsLowerCh(c) THEN Alphabet[Ord(c) - (FirstLower - FirstUpper)] ELSE c
ToLowerCh(c) == IF IsUpperCh(c) THEN Alphabet[Ord(c) + (FirstLower - FirstUpper)] ELSE c

\* Python's string order
RECURSIVE StrLess(_, _)
StrLess(s, t) ==
    IF t = <<>> THEN FALSE
    ELSE IF s = <<>> THEN TRUE
    ELSE IF Head(s) = Head(t) THEN StrLess(Tail(s), Tail(t))
    ELSE Ord(Head(s)) < Ord(Head(t))

\* the missing officer cell, and astype(str) of it
NaNText == <<"NaN">>
astype_str(s) == IF s = NaNText THEN <<"n", "a", "n">> ELSE s

RECURSIVE lstrip(_)
lstrip(s) == IF s # <<>> /\ Head(s) = " " THEN lstrip(Tail(s)) ELSE s
RECURSIVE rstrip(_)
rstrip(s) == IF s # <<>> /\ s[Len(s)] = " " THEN rstrip(SubSeq(s, 1, Len(s) - 1)) ELSE s
str_strip(s) == rstrip(lstrip(s))

IsPrefix(p, s) == Len(p) <= Len(s) /\ SubSeq(s, 1, Len(p)) = p

RECURSIVE str_replace(_, _, _)
\* str.replace(old, new, regex=False): every non-overlapping occurrence, left to right
str_replace(s, old, new) ==
    IF s = <<>> THEN <<>>
    ELSE IF IsPrefix(old, s)
         THEN new \o str_replace(SubSeq(s, Len(old) + 1, Len(s)), old, new)
         ELSE <<Head(s)>> \o str_replace(Tail(s), old, new)

\* str.title(): a letter that follows a non-letter is upper-cased, any other lower-cased
str_title(s) ==
    [i \in 1..Len(s) |->
        IF IsLetter(s[i])
        THEN IF i = 1 \/ ~IsLetter(s[i - 1]) THEN ToUpperCh(s[i]) ELSE ToLowerCh(s[i])
        ELSE s[i]]

BrianWanjau == <<"B","r","i","a","n"," ","W","a","n","j","a","u">>
name_corrections ==
    << <<SubSeq(BrianWanjau, 1, 10) \o <<":">>, BrianWanjau>>,
       <<BrianWanjau \o <<":">>, BrianWanjau>>,
       <<SubSeq(BrianWanjau, 1, 7) \o <<".">>, BrianWanjau>> >>

RECURSIVE ApplyCorrections(_, _)
ApplyCorrections(s, cs) ==
    IF cs = <<>> THEN s
    ELSE ApplyCorrections(str_replace(s, Head(cs)[1], Head(cs)[2]), Tail(cs))

\* normalize_officer_names on one SalesRep cell
NormalizeName(s) == str_title(ApplyCorrections(str_strip(astype_str(s)), name_corrections))

Al == <<"a", "l">>
BrianW == SubSeq(BrianWanjau, 1, 7) \o <<".">>

\* the SalesRep cells of the uploads
RawNames == {Al, <<" ">> \o Al, BrianW, NaNText}

\* normalize_officer_names, tabulated over the SalesRep cells of the uploads
normalize_officer_names == [s \in RawNames |-> NormalizeName(s)]

----------------------------------------------------------------------------
(* Policy A bucket classifier and the reconciler: ArrearsProcessorAPI *)

\* one day, in half days
Day == 2

VALID_BUCKETS == <<"1-15", "16-30", "31-180">>
REQUIRED_COLUMNS_SOD == {"LoanId", "SalesRep", "ArrearsAmount", "DaysInArrears"}
REQUIRED_COLUMNS_CUR == {"LoanId", "ArrearsAmount"}

\* get_bucket with the last range left open above
get_bucket_unbounded(d) ==
    IF IsNum(d) /\ 1 * Day <= d[1] /\ d[1] <= 15 * Day THEN "1-15"
    ELSE IF IsNum(d) /\ 16 * Day <= d[1] /\ d[1] <= 30 * Day THEN "16-30"
    ELSE IF IsNum(d) /\ 31 * Day <= d[1] THEN "31-180"
    ELSE "Other"

\* get_bucket on the age truncated to whole days
get_bucket_truncating(d) ==
    IF IsNum(d) /\ 1 <= d[1] \div Day /\ d[1] \div Day <= 15 THEN "1-15"
    ELSE IF IsNum(d) /\ 16 <= d[1] \div Day /\ d[1] \div Day <= 30 THEN "16-30"
    ELSE IF IsNum(d) /\ 31 <= d[1] \div Day /\ d[1] \div Day <= 180 THEN "31-180"
    ELSE "Other"

\* ArrearsProcessorAPI.get_bucket; every comparison with NaN is false
get_bucket(d) ==
    IF IsNum(d) /\ 1 * Day <= d[1] /\ d[1] <= 15 * Day THEN "1-15"
    ELSE IF IsNum(d) /\ 16 * Day <= d[1] /\ d[1] <= 30 * Day THEN "16-30"
    ELSE IF IsNum(d) /\ 31 * Day <= d[1] /\ d[1] <= 180 * Day THEN "31-180"
    ELSE "Other"

\* DataFrame.dropna(subset=...) of the start-of-day rows
dropna_sod(rows) ==
    SelectSeq(rows, LAMBDA r : ~isna(r.LoanId) /\ r.SalesRep # NaNText /\ ~isna(r.Arrears_SOD))

\* DataFrame.dropna(subset=...) of the current rows
dropna_cur(rows) == SelectSeq(rows, LAMBDA r : ~isna(r.LoanId) /\ ~isna(r.Arrears_CUR))

\* a merge that validates nothing
KeysUnique_unchecked(rows) == TRUE

\* pd.merge(validate='one_to_one'): the merge keys are unique in a frame
KeysUnique(rows) == \A i, j \in 1..Len(rows) : rows[i].LoanId = rows[j].LoanId => i = j

RECURSIVE merge_inner(_, _)
\* how='inner': a left row without a match is lost
merge_inner(left, right) ==
    IF left = <<>> THEN <<>>
    ELSE With(Head(left), LAMBDA l :
         With(SelectSeq(right, LAMBDA r : r.LoanId = l.LoanId), LAMBDA m :
             [k \in 1..Len(m) |->
                [LoanId |-> l.LoanId, SalesRep |-> l.SalesRep,
                 Arrears_SOD |-> l.Arrears_SOD, Age_SOD |-> l.Age_SOD,
                 Arrears_CUR |-> m[k].Arrears_CUR]]
             \o merge_inner(Tail(left), right)))

\* pd.merge(left, right, on='LoanId', how='left'): one output row per pair of
\* matching rows, a left row without a match once with a missing right side
RECURSIVE merge_left(_, _)
merge_left(left, right) ==
    IF left = <<>> THEN <<>>
    ELSE With(Head(left), LAMBDA l :
         With(SelectSeq(right, LAMBDA r : r.LoanId = l.LoanId), LAMBDA m :
             LET row(c) == [LoanId |-> l.LoanId, SalesRep |-> l.SalesRep,
                            Arrears_SOD |-> l.Arrears_SOD, Age_SOD |-> l.Age_SOD,
                            Arrears_CUR |-> c]
             IN  (IF m = <<>> THEN <<row(NaN)>>
                  ELSE [k \in 1..Len(m) |-> row(m[k].Arrears_CUR)])
                 \o merge_left(Tail(left), right)))

RECURSIVE SortedNames(_)
\* sorted(...) of a set of texts
SortedNames(S) ==
    IF S = {} THEN <<>>
    ELSE With(CHOOSE x \in S : \A y \in S : y = x \/ StrLess(x, y), LAMBDA m :
         With(S \ {m}, LAMBDA rest : <<m>> \o SortedNames(rest)))

\* ArrearsProcessorAPI.process_data on the two loaded frames: the tables, or the
\* exception it raises
process_data(sod, cur) ==
    IF ~sod.readable \/ ~cur.readable THEN [ok |-> FALSE, message |-> "load"]
    ELSE IF ~(REQUIRED_COLUMNS_SOD \subseteq sod.columns)
    THEN [ok |-> FALSE, message |-> "missing_sod"]
    ELSE IF ~(REQUIRED_COLUMNS_CUR \subseteq cur.columns)
    THEN [ok |-> FALSE, message |-> "missing_cur"]
    ELSE
    With(dropna_sod(
            [i \in 1..Len(sod.rows) |->
                [LoanId |-> sod.rows[i].LoanId,
                 SalesRep |-> normalize_officer_names[sod.rows[i].SalesRep],
                 Arrears_SOD |-> to_numeric(sod.rows[i].ArrearsAmount),
                 Age_SOD |-> to_numeric(sod.rows[i].DaysInArrears)]]), LAMBDA df_sod :
    With(dropna_cur(
            [i \in 1..Len(cur.rows) |->
                [LoanId |-> cur.rows[i].LoanId,
                 Arrears_CUR |-> to_numeric(cur.rows[i].ArrearsAmount)]]), LAMBDA df_cur :
    With(SortedNames({df_sod[i].SalesRep : i \in 1..Len(df_sod)}), LAMBDA unique_officers :
        IF ~KeysUnique(df_sod) \/ ~KeysUnique(df_cur)
        THEN [ok |-> FALSE, message |-> "merge"]
        ELSE
        With(merge_left(df_sod, df_cur), LAMBDA joined :
        With([i \in 1..Len(joined) |->
                With(fillna(joined[i].Arrears_CUR, 0), LAMBDA c :
                    [LoanId |-> joined[i].LoanId, SalesRep |-> joined[i].SalesRep,
                     Arrears_SOD |-> joined[i].Arrears_SOD,
                     Age_SOD |-> joined[i].Age_SOD, Arrears_CUR |-> c,
                     Collected |-> Sub(joined[i].Arrears_SOD, c)])], LAMBDA merged :
        With(SelectSeq(merged, LAMBDA r : IsNum(r.Collected) /\ r.Collected[1] > 0),
             LAMBDA positive :
        With([i \in 1..Len(positive) |->
                [LoanId |-> positive[i].LoanId, SalesRep |-> positive[i].SalesRep,
                 Arrears_SOD |-> positive[i].Arrears_SOD,
                 Age_SOD |-> positive[i].Age_SOD,
                 Arrears_CUR |-> positive[i].Arrears_CUR,
                 Collected |-> positive[i].Collected,
                 Bucket |-> get_bucket(positive[i].Age_SOD)]], LAMBDA bucketed :
            [ok |-> TRUE,
             df_collected |-> SelectSeq(bucketed, LAMBDA r : r.Bucket \in SeqToSet(VALID_BUCKETS)),
             df_merged |-> merged,
             officers |-> unique_officers])))))))

----------------------------------------------------------------------------
(* The summary pivot: ArrearsProcessorAPI.create_formatted_table *)

GRAND_TOTAL == <<"G","R","A","N","D"," ","T","O","T","A","L">>
TargetColumns == {"Target", "Remaining", "Achievement %"}

\* a frame column of a sequence of rows [SalesRep, v], as a sequence of cells
Column(rows, c) == [k \in 1..Len(rows) |-> rows[k].v[c]]

\* pd.pivot_table(values='Collected', index='SalesRep', columns='Bucket',
\* aggfunc='sum', fill_value=0): officers ascending, only the buckets that occur
pivot_table(df) ==
    With(SortedNames({df[i].SalesRep : i \in 1..Len(df)}), LAMBDA idx :
    With({df[i].Bucket : i \in 1..Len(df)}, LAMBDA columns :
        [columns |-> columns,
         rows |-> [k \in 1..Len(idx) |->
                    [SalesRep |-> idx[k],
                     v |-> [b \in columns |->
                             With(SelectSeq(df, LAMBDA r : r.SalesRep = idx[k] /\ r.Bucket = b),
                                  LAMBDA cell :
                                 Num(SumCells([i \in 1..Len(cell) |-> cell[i].Collected])))]]]]))

\* the pivot without the officers who collected nothing
add_officers_skipped(pv, offs) == pv

RECURSIVE add_officers(_, _)
\* pd.concat([pivot, DataFrame([new_row])]) for every officer not in the index:
\* the columns become the union, and a row lacks a value (NaN) in every column
\* that only the other frame had
add_officers(pv, offs) ==
    IF offs = <<>> THEN pv
    ELSE IF \E k \in 1..Len(pv.rows) : pv.rows[k].SalesRep = Head(offs)
    THEN With(Tail(offs), LAMBDA rest : add_officers(pv, rest))
    ELSE With(pv.columns \cup SeqToSet(VALID_BUCKETS), LAMBDA cols :
         With([columns |-> cols,
               rows |-> [k \in 1..Len(pv.rows) |->
                          [SalesRep |-> pv.rows[k].SalesRep,
                           v |-> [b \in cols |->
                                   IF b \in pv.columns THEN pv.rows[k].v[b] ELSE NaN]]]
                        \o << [SalesRep |-> Head(offs),
                               v |-> [b \in cols |->
                                       IF b \in SeqToSet(VALID_BUCKETS)
                                       THEN Num(0) ELSE NaN]] >>], LAMBDA widened :
         With(Tail(offs), LAMBDA rest : add_officers(widened, rest))))

\* pivot[bucket] = 0.0 for every valid bucket that is not a column yet, then
\* pivot[VALID_BUCKETS], then pivot['Grand Total'] = pivot.sum(axis=1)
with_grand_total(pv) ==
    [k \in 1..Len(pv.rows) |->
        With([c \in SeqToSet(VALID_BUCKETS) |->
                IF c \in pv.columns THEN pv.rows[k].v[c] ELSE Num(0)], LAMBDA v3 :
            [SalesRep |-> pv.rows[k].SalesRep,
             v |-> ("Grand Total" :> Num(SumCells([i \in 1..Len(VALID_BUCKETS) |->
                                                   v3[VALID_BUCKETS[i]]]))) @@ v3])]

RECURSIVE sort_values_asc(_, _)
\* sort_values(c) with the default ascending=True
sort_values_asc(rows, c) ==
    IF rows = <<>> THEN <<>>
    ELSE With(SubSeq(rows, 1, Len(rows) - 1), LAMBDA front :
         With(sort_values_asc(front, c), LAMBDA init :
         With(rows[Len(rows)], LAMBDA r :
         With(Cardinality({k \in 1..Len(init) : init[k].v[c][1] <= r.v[c][1]}), LAMBDA n :
             SubSeq(init, 1, n) \o <<r>> \o SubSeq(init, n + 1, Len(init))))))

RECURSIVE sort_values_desc(_, _)
\* sort_values(c, ascending=False); frames of under 17 rows are insertion-sorted
\* by numpy, so rows with equal keys keep their order
sort_values_desc(rows, c) ==
    IF rows = <<>> THEN <<>>
    ELSE With(SubSeq(rows, 1, Len(rows) - 1), LAMBDA front :
         With(sort_values_desc(front, c), LAMBDA init :
         With(rows[Len(rows)], LAMBDA r :
         With(Cardinality({k \in 1..Len(init) : init[k].v[c][1] >= r.v[c][1]}), LAMBDA n :
             SubSeq(init, 1, n) \o <<r>> \o SubSeq(init, n + 1, Len(init))))))

\* ArrearsProcessorAPI.parse_targets_from_json: <<v>> is a number, <<v, 1>> a
\* numeric string (thousands separators removed), anything else defaults to 0.0
parse_targets_from_json(targets_json) ==
    [o \in DOMAIN targets_json |->
        LET t == targets_json[o]
        IN  IF Len(t) = 1 \/ (Len(t) = 2 /\ t[2] = 1) THEN Round2(t[1]) ELSE 0]

\* the exact quotient n / d * 100 of the Achievement % column: <<100 n, d>>
Ratio(n, d) == <<100 * n, d>>

\* self.officer_targets when create_formatted_table returns
targets_after(rows, arg, self_targets) ==
    With(IF arg.given THEN parse_targets_from_json(arg.map) ELSE self_targets, LAMBDA parsed :
        IF DOMAIN parsed = {} THEN parsed
        ELSE [o \in DOMAIN parsed \cup {rows[k].SalesRep : k \in 1..Len(rows)} |->
                IF o \in DOMAIN parsed THEN parsed[o] ELSE 0])

\* the officer rows with Target, Remaining and Achievement % when targets are set
with_targets(rows, tg) ==
    IF DOMAIN tg = {} THEN rows
    ELSE [k \in 1..Len(rows) |->
            LET gt == rows[k].v["Grand Total"][1]
                t == tg[rows[k].SalesRep]
            IN  [SalesRep |-> rows[k].SalesRep,
                 v |-> ("Target" :> Num(t)) @@ ("Remaining" :> Num(t - gt)) @@
                       ("Achievement %" :> IF t > 0 THEN Ratio(gt, t) ELSE Num(0)) @@
                       rows[k].v]]

\* grand_row: pivot.sum(axis=0), with Target, Remaining and Achievement %
\* recomputed from the totals
grand_row(rows) ==
    With(IF rows = <<>> THEN {} ELSE DOMAIN rows[1].v, LAMBDA cols :
    With([c \in cols \ TargetColumns |-> Num(SumCells(Column(rows, c)))], LAMBDA sums :
        [SalesRep |-> GRAND_TOTAL,
         v |-> IF "Target" \in cols
               THEN With(SumCells(Column(rows, "Target")), LAMBDA t :
                    ("Target" :> Num(t)) @@
                    ("Remaining" :> Num(t - sums["Grand Total"][1])) @@
                    ("Achievement %" :> IF t > 0 THEN Ratio(sums["Grand Total"][1], t)
                                        ELSE Num(0)) @@ sums)
               ELSE sums]))

\* final_df[numeric_cols].round(2)
round_frame(rows) ==
    [k \in 1..Len(rows) |->
        [SalesRep |-> rows[k].SalesRep,
         v |-> [c \in DOMAIN rows[k].v |->
                 IF Len(rows[k].v[c]) = 2
                 THEN Num(RoundRatio(rows[k].v[c][1], rows[k].v[c][2]))
                 ELSE RoundCell(rows[k].v[c])]]]

\* the column order of the frame: pivot[self.VALID_BUCKETS], then Grand Total,
\* then the three target columns when targets are set
pivot_columns(tg) ==
    VALID_BUCKETS \o <<"Grand Total">>
    \o (IF DOMAIN tg = {} THEN <<>> ELSE <<"Target", "Remaining", "Achievement %">>)

\* ArrearsProcessorAPI.create_formatted_table: the frame before and after the
\* display rounding, and self.officer_targets as the call leaves it
create_formatted_table(coll, offs, arg, self_targets) ==
    With(pivot_table(coll), LAMBDA collected :
    With(add_officers(collected, offs), LAMBDA all_officers :
    With(with_grand_total(all_officers), LAMBDA totalled :
    With(sort_values_desc(totalled, "Grand Total"), LAMBDA sorted :
    With(targets_after(sorted, arg, self_targets), LAMBDA tg :
    With(with_targets(sorted, tg), LAMBDA body :
    With(body \o <<grand_row(body)>>, LAMBDA full :
        [pivot |-> full, final_df |-> round_frame(full), officer_targets |-> tg])))))))

----------------------------------------------------------------------------
(* The reports and ArrearsProcessorAPI.process *)

\* df.head(10)
head10(df) == SubSeq(df, 1, IF Len(df) < 10 THEN Len(df) ELSE 10)

Collected(df) == [i \in 1..Len(df) |-> df[i].Collected]

\* total target, overall achievement and remaining target, reported when
\* self.officer_targets is not empty
target_fields(total_collected, tg) ==
    With(SortedNames(DOMAIN tg), LAMBDA names :
    With(SumCells([i \in 1..Len(names) |-> Num(tg[names[i]])]), LAMBDA total_target :
        [total_target |-> total_target,
         overall_achievement_percentage |->
             IF total_target > 0 THEN Ratio(total_collected, total_target) ELSE Num(0),
         remaining_target |-> total_target - total_collected]))

\* ArrearsProcessorAPI.generate_json_report (the timestamp is left out)
generate_json_report(coll, merged, final, tg) ==
    With(SumCells(Collected(coll)), LAMBDA total :
    With({coll[i].SalesRep : i \in 1..Len(coll)}, LAMBDA reps :
    LET by(f, x) == SelectSeq(coll, LAMBDA r : r[f] = x)
        base == [status |-> "success",
                 summary |-> [total_collected |-> total,
                              total_loans_collected |-> Len(coll),
                              officer_count |-> Cardinality(reps),
                              total_loans_processed |-> Len(merged),
                              average_collection |-> <<total, Len(coll)>>],
                 bucket_distribution |->
                     [b \in {coll[i].Bucket : i \in 1..Len(coll)} |->
                         SumCells(Collected(by("Bucket", b)))],
                 officer_performance |->
                     [o \in reps |-> [collected |-> SumCells(Collected(by("SalesRep", o))),
                                      loans_collected |-> Len(by("SalesRep", o))]],
                 sample_data |-> [collected_loans |-> head10(coll),
                                  summary_table |-> final]]
    IN  IF DOMAIN tg = {} THEN base
        ELSE [targets |-> target_fields(total, tg), officer_targets |-> tg] @@ base))

\* ArrearsProcessorAPI.create_excel_report: the sheets of the workbook
create_excel_report(coll, merged, final, tg) ==
    With(SumCells(Collected(coll)), LAMBDA total :
    With([total_loans_collected |-> Len(coll), total_collected |-> total,
          average |-> <<total, Len(coll)>>,
          officer_count |-> Cardinality({coll[i].SalesRep : i \in 1..Len(coll)}),
          total_loans_processed |-> Len(merged)], LAMBDA stats :
        [summary_report |-> final, detailed_collections |-> coll, raw_data |-> merged,
         statistics |-> IF DOMAIN tg = {} THEN stats
                        ELSE [targets |-> target_fields(total, tg)] @@ stats]))

\* an empty collected table reported as a failure
empty_result_as_error(offs) ==
    [status |-> "error", message |-> "No collections found in the data"]

\* what process returns when no row qualifies for the collected table
empty_result(offs) ==
    [status |-> "success", message |-> "No collections found in the data",
     data |-> [total_collected |-> 0, officer_count |-> Len(offs), collected_loans |-> 0]]

\* ArrearsProcessorAPI.process: what it returns and the state it leaves
process(sod, cur, arg, output_format, self_targets) ==
    With(process_data(sod, cur), LAMBDA pd :
    LET none == [df_collected |-> <<>>, df_merged |-> <<>>, officers |-> <<>>,
                 pivot |-> <<>>, final_df |-> <<>>, officer_targets |-> self_targets]
    IN  IF ~pd.ok
        THEN [result |-> [status |-> "error", message |-> pd.message]] @@ none
        ELSE IF pd.df_collected = <<>>
        THEN [result |-> empty_result(pd.officers),
              df_collected |-> pd.df_collected, df_merged |-> pd.df_merged,
              officers |-> pd.officers] @@ none
        ELSE
        With(create_formatted_table(pd.df_collected, pd.officers, arg, self_targets), LAMBDA t :
            [result |->
                IF output_format = "excel"
                THEN [status |-> "success",
                      message |-> "Excel report generated successfully",
                      format |-> "excel",
                      excel_data |-> create_excel_report(pd.df_collected, pd.df_merged,
                                                         t.final_df, t.officer_targets)]
                ELSE generate_json_report(pd.df_collected, pd.df_merged, t.final_df,
                                          t.officer_targets),
             df_collected |-> pd.df_collected, df_merged |-> pd.df_merged,
             officers |-> pd.officers, pivot |-> t.pivot, final_df |-> t.final_df,
             officer_targets |-> t.officer_targets]))

----------------------------------------------------------------------------
(* Inputs *)

MaxSodRows == 2
MaxCurRows == 2

SodRow(l, s, a, d) == [LoanId |-> l, SalesRep |-> s, ArrearsAmount |-> a, DaysInArrears |-> d]
CurRow(l, a) == [LoanId |-> l, ArrearsAmount |-> a]

\* start-of-day rows: two officers and a missing one, the buckets 1-15 and 16-30,
\* an age of 15.5 days, a missing age, a missing loan id, an unparseable amount
SodRows ==
    { SodRow(Num(1), Al, Num(1004), Num(10 * Day)),
      SodRow(Num(2), Al, Num(2500), Num(20 * Day)),
      SodRow(Num(1), BrianW, Num(1004), Num(20 * Day)),
      SodRow(Num(2), BrianW, Num(2500), Num(31)),
      SodRow(Num(2), <<" ">> \o Al, Num(2500), NaN),
      SodRow(Num(1), NaNText, Num(1004), Num(10 * Day)),
      SodRow(NaN, Al, Num(1004), Num(10 * Day)),
      SodRow(Num(2), BrianW, TextCell, Num(10 * Day)) }

\* current rows: a part payment of loan 1, loan 2 unchanged, an unparseable amount
CurRows ==
    { CurRow(Num(1), Num(200)), CurRow(Num(2), Num(2500)), CurRow(Num(1), TextCell) }

Tables(S, n) == UNION {[1..k -> S] : k \in 0..n}

\* the frames load_and_clean_data returns: a frame with all columns, a frame
\* that lacks a required column, or none (the file cannot be read)
Files(required, S, n) ==
    {[readable |-> TRUE, columns |-> required, rows |-> t] : t \in Tables(S, n)}
    \cup {[readable |-> TRUE, columns |-> required \ {"ArrearsAmount"}, rows |-> <<>>],
          [readable |-> FALSE, columns |-> {}, rows |-> <<>>]}

NoFile == [readable |-> FALSE, columns |-> {}, rows |-> <<>>]

\* the officer_targets argument of process: absent, empty, or a mapping
TargetArgs ==
    { [given |-> FALSE, map |-> <<>>],
      [given |-> TRUE, map |-> <<>>],
      [given |-> TRUE, map |-> (str_title(Al) :> <<2000, 1>>) @@ (Al :> TextCell)] }

----------------------------------------------------------------------------
(* ArrearsProcessorAPI: a processor is constructed for a request and process *)
(* is called on it                                                           *)

ArrInit ==
    /\ sod_file \in Files(REQUIRED_COLUMNS_SOD, SodRows, MaxSodRows)
    /\ cur_file \in Files(REQUIRED_COLUMNS_CUR, CurRows, MaxCurRows)
    /\ arr_pc = "ready"
    /\ officer_targets = <<>>
    /\ df_collected = <<>> /\ df_merged = <<>> /\ officers = <<>>
    /\ pivot = <<>> /\ final_df = <<>> /\ result = <<>>

ArrIdle ==
    /\ sod_file = NoFile /\ cur_file = NoFile
    /\ arr_pc = "off"
    /\ officer_targets = <<>>
    /\ df_collected = <<>> /\ df_merged = <<>> /\ officers = <<>>
    /\ pivot = <<>> /\ final_df = <<>> /\ result = <<>>

\* one call of process on the object with the uploads of the request; the
\* object can be called again
Process(arg, output_format) ==
    /\ arr_pc \in {"ready", "done"}
    /\ \E out \in {process(sod_file, cur_file, arg, output_format, officer_targets)} :
           /\ result' = out.result
           /\ officer_targets' = out.officer_targets
           /\ df_collected' = out.df_collected
           /\ df_merged' = out.df_merged
           /\ officers' = out.officers
           /\ pivot' = out.pivot
           /\ final_df' = out.final_df
    /\ arr_pc' = "done"
    /\ UNCHANGED <<sod_file, cur_file, bucket_vars, loan_vars, risk_vars, dash_vars, svc_vars>>

\* no loan report generator in this run
LoanIdle ==
    /\ loan_file = <<>> /\ loan_df = [stage |-> "off", rows |-> <<>>]
    /\ loan_final_df = [built |-> FALSE, rows |-> <<>>]
    /\ groups = <<>> /\ grand_totals = <<>> /\ loan_result = <<>> /\ loan_runs = 0

\* no risk analyzer in this run
RiskIdle ==
    /\ risk_file = <<>> /\ risk_pc = "off" /\ risk_df = <<>>
    /\ customer_risk = [scored |-> FALSE, rows |-> <<>>]
    /\ summaries = <<>> /\ risk_result = <<>>

DashIdle == df_clean = <<>> /\ pivot_rep = [built |-> FALSE, rows |-> <<>>]

BucketIdle ==
    /\ days = NaN /\ bucket_a = "done" /\ bucket_b = "done" /\ bucket_id = 0
    /\ report_bucket = [Bucket |-> "done", BucketID |-> 0]

ArrNext == \E arg \in TargetArgs, output_format \in {"json", "excel"} : Process(arg, output_format)

\* only this component is in use
InitArrears == ArrInit /\ BucketIdle /\ LoanIdle /\ RiskIdle /\ DashIdle /\ SvcIdle

SpecArrears == InitArrears /\ [][ArrNext]_vars

----------------------------------------------------------------------------
(* Properties of the reconciler and the summary pivot, under SpecArrears *)

Done == arr_pc = "done"
Succeeded == Done /\ result.status = "success"
SodRowsIn == sod_file.rows
CurRowsIn == cur_file.rows

\* a start-of-day row with all four required fields holding a value of their type
Populated(r) ==
    /\ ~isna(r.LoanId) /\ r.SalesRep # NaNText
    /\ IsNum(r.ArrearsAmount) /\ IsNum(r.DaysInArrears)

\* merged row m is the image of start-of-day row r
FromSod(m, r) ==
    /\ m.LoanId = r.LoanId /\ m.SalesRep = NormalizeName(r.SalesRep)
    /\ m.Arrears_SOD = r.ArrearsAmount /\ m.Age_SOD = r.DaysInArrears

HasCurRow(l) == \E j \in 1..Len(CurRowsIn) : CurRowsIn[j].LoanId = l

\* C2: when reconciliation succeeds, every start-of-day row whose required
\* fields are populated is the source of exactly one merged row, whether or not a
\* current row has its LoanId, and every merged row has a start-of-day row as
\* its source.
C2_MergedIsLeftJoin ==
    Succeeded =>
        /\ \A i \in 1..Len(SodRowsIn) :
              Populated(SodRowsIn[i]) =>
                  Cardinality({k \in 1..Len(df_merged) : FromSod(df_merged[k], SodRowsIn[i])}) = 1
        /\ \A k \in 1..Len(df_merged) :
              \E i \in 1..Len(SodRowsIn) : FromSod(df_merged[k], SodRowsIn[i])

C2_Witness ==
    /\ Succeeded
    /\ \E i, j \in 1..Len(SodRowsIn) :
          /\ Populated(SodRowsIn[i]) /\ HasCurRow(SodRowsIn[i].LoanId)
          /\ Populated(SodRowsIn[j]) /\ ~HasCurRow(SodRowsIn[j].LoanId)
    /\ Len(df_merged) = 2

\* C3: a merged row whose LoanId no current row has holds Arrears_CUR = 0 and
\* Collected = Arrears_SOD.
C3_UnmatchedCollectsAll ==
    Succeeded =>
        \A k \in 1..Len(df_merged) :
            ~HasCurRow(df_merged[k].LoanId) =>
                /\ df_merged[k].Arrears_CUR = Num(0)
                /\ df_merged[k].Collected = df_merged[k].Arrears_SOD

C3_Witness ==
    /\ Succeeded /\ CurRowsIn # <<>>
    /\ \E k \in 1..Len(df_merged) :
          /\ ~HasCurRow(df_merged[k].LoanId)
          /\ df_merged[k].Collected = df_merged[k].Arrears_SOD
          /\ df_merged[k].Collected[1] > 0

\* the age lies in one of the three valid Policy A ranges (in days)
InValidRange(a) ==
    /\ IsNum(a)
    /\ \/ 1 * Day <= a[1] /\ a[1] <= 15 * Day
       \/ 16 * Day <= a[1] /\ a[1] <= 30 * Day
       \/ 31 * Day <= a[1] /\ a[1] <= 180 * Day

InCollected(m) ==
    \E c \in 1..Len(df_collected) :
        /\ df_collected[c].LoanId = m.LoanId /\ df_collected[c].SalesRep = m.SalesRep
        /\ df_collected[c].Collected = m.Collected /\ df_collected[c].Age_SOD = m.Age_SOD

\* C4: a merged row is in the collected table iff its Collected is above 0 and
\* its start-of-day age falls in 1-15, 16-30 or 31-180; the collected table
\* holds merged rows only, so an excluded row is still in the merged table.
C4_CollectedFilter ==
    Succeeded =>
        /\ \A k \in 1..Len(df_merged) :
              InCollected(df_merged[k]) <=>
                  (df_merged[k].Collected[1] > 0 /\ InValidRange(df_merged[k].Age_SOD))
        /\ \A c \in 1..Len(df_collected) :
              \E k \in 1..Len(df_merged) : df_merged[k].LoanId = df_collected[c].LoanId
        /\ Len(df_collected) <= Len(df_merged)

C4_Witness ==
    /\ Succeeded
    /\ \E k \in 1..Len(df_merged) : InCollected(df_merged[k])
    /\ \E k \in 1..Len(df_merged) :
          /\ ~InCollected(df_merged[k])
          /\ df_merged[k].Collected[1] > 0
          /\ IsNum(df_merged[k].Age_SOD)

\* the same LoanId in two rows of an upload
RawDuplicate(rows) ==
    \E i, j \in 1..Len(rows) : i # j /\ ~isna(rows[i].LoanId) /\ rows[i].LoanId = rows[j].LoanId

\* the same LoanId in two rows that both hold a LoanId and a numeric amount
KeptDuplicate(rows) ==
    \E i, j \in 1..Len(rows) :
        /\ i # j /\ ~isna(rows[i].LoanId) /\ rows[i].LoanId = rows[j].LoanId
        /\ IsNum(rows[i].ArrearsAmount) /\ IsNum(rows[j].ArrearsAmount)

\* process returned an error and no table
Rejected ==
    /\ result.status = "error" /\ DOMAIN result = {"status", "message"}
    /\ df_collected = <<>> /\ df_merged = <<>> /\ final_df = <<>>

\* C5 as stated: a LoanId that occurs twice in the start-of-day upload or twice
\* in the current upload makes process return an error and no table.
C5_AnyDuplicateRejected ==
    (Done /\ (RawDuplicate(SodRowsIn) \/ RawDuplicate(CurRowsIn))) => Rejected

\* C5, amended: a LoanId that occurs twice among the rows of an upload that hold
\* a LoanId and a numeric arrears amount (the rows that are not dropped before
\* the join) makes process return an error and no table.
C5_KeptDuplicateRejected ==
    (Done /\ (KeptDuplicate(SodRowsIn) \/ KeptDuplicate(CurRowsIn))) => Rejected

C5_Witness ==
    /\ Done /\ Rejected /\ result.message = "merge"
    /\ KeptDuplicate(CurRowsIn) /\ ~KeptDuplicate(SodRowsIn) /\ SodRowsIn # <<>>

\* the run fails: an upload cannot be read, lacks a required column, or repeats a key
Failed ==
    \/ ~sod_file.readable \/ ~cur_file.readable
    \/ ~(REQUIRED_COLUMNS_SOD \subseteq sod_file.columns)
    \/ ~(REQUIRED_COLUMNS_CUR \subseteq cur_file.columns)
    \/ KeptDuplicate(SodRowsIn) \/ KeptDuplicate(CurRowsIn)

\* C6: a run that succeeds with an empty collected table returns status
\* 'success'; a run returns status 'error' exactly when it fails.
C6_EmptyIsSuccess ==
    Done =>
        /\ result.status \in {"success", "error"}
        /\ Failed <=> result.status = "error"
        /\ (~Failed /\ df_collected = <<>>) =>
              /\ result.status = "success"
              /\ result.message = "No collections found in the data"

C6_Witness ==
    /\ Done /\ ~Failed /\ df_collected = <<>> /\ df_merged # <<>>
    /\ result.status = "success"

OfficerRows(t) == SubSeq(t, 1, Len(t) - 1)
RowsOf(t, o) == {k \in 1..Len(OfficerRows(t)) : t[k].SalesRep = o}
HasCollected(o) == \E c \in 1..Len(df_collected) : df_collected[c].SalesRep = o
ZeroRow(r) == \A c \in SeqToSet(VALID_BUCKETS) \cup {"Grand Total"} : r.v[c] = Num(0)

\* every officer of S has exactly one row of the returned summary table, a row
\* of zeros when the officer has no collected record
PresentIn(S) ==
    \A o \in S :
        /\ Cardinality(RowsOf(final_df, o)) = 1
        /\ ~HasCollected(o) => \A k \in RowsOf(final_df, o) : ZeroRow(final_df[k])

\* C7 as stated: when a summary pivot is built, every distinct SalesRep value of
\* the start-of-day upload has exactly one row, all zeros if the officer
\* collected nothing.
C7_EveryUploadedOfficer ==
    (Succeeded /\ final_df # <<>>) =>
        PresentIn({NormalizeName(SodRowsIn[i].SalesRep) : i \in 1..Len(SodRowsIn)})

\* C7, amended: when a summary pivot is built, every distinct SalesRep value of
\* the start-of-day rows that hold a LoanId and a numeric arrears amount (the
\* master officer list process_data returns) has exactly one row, all zeros if
\* the officer collected nothing.
C7_EveryListedOfficer ==
    (Succeeded /\ final_df # <<>>) =>
        /\ PresentIn({NormalizeName(SodRowsIn[i].SalesRep) :
                        i \in {j \in 1..Len(SodRowsIn) :
                                  /\ ~isna(SodRowsIn[j].LoanId)
                                  /\ IsNum(SodRowsIn[j].ArrearsAmount)}})
        /\ Len(final_df) = Len(officers) + 1

C7_Witness ==
    /\ Succeeded /\ final_df # <<>>
    /\ \E o \in SeqToSet(officers) :
          ~HasCollected(o) /\ \E k \in RowsOf(final_df, o) : ZeroRow(final_df[k])

\* C8 as stated: every officer row of the summary pivot holds a number in each
\* of the columns 1-15, 16-30 and 31-180, and its Grand Total is their sum.
C8_DefinedCells ==
    (Succeeded /\ pivot # <<>>) =>
        \A k \in 1..Len(OfficerRows(pivot)) :
            /\ \A b \in SeqToSet(VALID_BUCKETS) : IsNum(pivot[k].v[b])
            /\ pivot[k].v["Grand Total"] =
                  Num(SumCells([i \in 1..Len(VALID_BUCKETS) |-> pivot[k].v[VALID_BUCKETS[i]]]))

----------------------------------------------------------------------------
(* Policy A and Policy B bucket classifiers on one age *)

\* arrange_arrears.py get_bucket, on the age in half days
dashboard_get_bucket(d) ==
    IF d < 1 * Day THEN "Current"
    ELSE IF 1 * Day <= d /\ d <= 3 * Day THEN "1-3 Days"
    ELSE IF 4 * Day <= d /\ d <= 5 * Day THEN "4-5 Days"
    ELSE IF 6 * Day <= d /\ d <= 9 * Day THEN "6-9 Days"
    ELSE IF 10 * Day <= d /\ d <= 30 * Day THEN "10-30 Days"
    ELSE "31+ Days"

\* arrange_arrears.py get_bucket_id
dashboard_get_bucket_id(d) ==
    IF d < 1 * Day THEN 0
    ELSE IF 1 * Day <= d /\ d <= 3 * Day THEN 1
    ELSE IF 4 * Day <= d /\ d <= 5 * Day THEN 2
    ELSE IF 6 * Day <= d /\ d <= 9 * Day THEN 3
    ELSE IF 10 * Day <= d /\ d <= 30 * Day THEN 4
    ELSE 5

\* utils/report_generator.py get_bucket
report_get_bucket(d) ==
    IF d < 1 * Day THEN "Current"
    ELSE IF 1 * Day <= d /\ d <= 3 * Day THEN "1-3 Days"
    ELSE IF 4 * Day <= d /\ d <= 5 * Day THEN "4-5 Days"
    ELSE IF 6 * Day <= d /\ d <= 9 * Day THEN "6-9 Days"
    ELSE IF 10 * Day <= d /\ d <= 30 * Day THEN "10-30 Days"
    ELSE "31+ Days"

\* utils/report_generator.py get_bucket_id
report_get_bucket_id(d) ==
    IF d < 1 * Day THEN 0
    ELSE IF 1 * Day <= d /\ d <= 3 * Day THEN 1
    ELSE IF 4 * Day <= d /\ d <= 5 * Day THEN 2
    ELSE IF 6 * Day <= d /\ d <= 9 * Day THEN 3
    ELSE IF 10 * Day <= d /\ d <= 30 * Day THEN 4
    ELSE 5

\* ages from -MaxBelowZero to MaxHalfDays half days, and the missing age
MaxBelowZero == 20
MaxHalfDays == 400
Ages == {NaN} \cup {Num(h) : h \in (0 - MaxBelowZero)..MaxHalfDays}

BucketInit ==
    /\ days \in Ages
    /\ bucket_a = "" /\ bucket_b = "" /\ bucket_id = 0
    /\ report_bucket = [Bucket |-> "", BucketID |-> 0]

\* df_collected['Age_SOD'].apply(self.get_bucket)
ClassifyA ==
    /\ bucket_a = ""
    /\ bucket_a' = get_bucket(days)
    /\ UNCHANGED <<days, bucket_b, bucket_id, report_bucket, arr_vars, loan_vars, risk_vars, dash_vars, svc_vars>>

\* EnterpriseDashboardAPI: DaysInArrears is made numeric with NaN as 0, then
\* Bucket and BucketID are applied
ClassifyB ==
    /\ bucket_b = ""
    /\ bucket_b' = dashboard_get_bucket(fillna(to_numeric(days), 0)[1])
    /\ bucket_id' = dashboard_get_bucket_id(fillna(to_numeric(days), 0)[1])
    /\ UNCHANGED <<days, bucket_a, report_bucket, arr_vars, loan_vars, risk_vars, dash_vars, svc_vars>>

\* utils/report_generator.py: the same two columns
ClassifyReport ==
    /\ report_bucket.Bucket = ""
    /\ report_bucket' = [Bucket |-> report_get_bucket(fillna(to_numeric(days), 0)[1]),
                         BucketID |-> report_get_bucket_id(fillna(to_numeric(days), 0)[1])]
    /\ UNCHANGED <<days, bucket_a, bucket_b, bucket_id, arr_vars, loan_vars, risk_vars, dash_vars, svc_vars>>

BucketNext == ClassifyA \/ ClassifyB \/ ClassifyReport

\* only this component is in use
InitBucket == BucketInit /\ ArrIdle /\ LoanIdle /\ RiskIdle /\ DashIdle /\ SvcIdle

SpecBucket == InitBucket /\ [][BucketNext]_vars

\* the age in days lies in [lo, hi]
Within(lo, hi) == IsNum(days) /\ lo * Day <= days[1] /\ days[1] <= hi * Day

\* C9: Policy A maps every age to a label: [1,15] to '1-15', [16,30] to
\* '16-30', [31,180] to '31-180', and every other age (0, negative, above 180,
\* between two ranges, missing) to 'Other'.
C9_PolicyATotal ==
    bucket_a # "" =>
        /\ bucket_a \in {"1-15", "16-30", "31-180", "Other"}
        /\ Within(1, 15) <=> bucket_a = "1-15"
        /\ Within(16, 30) <=> bucket_a = "16-30"
        /\ Within(31, 180) <=> bucket_a = "31-180"
        /\ ~(Within(1, 15) \/ Within(16, 30) \/ Within(31, 180)) <=> bucket_a = "Other"

C9_Witness ==
    /\ bucket_a = "Other" /\ IsNum(days) /\ days[1] > 180 * Day

PolicyBLabels == <<"Current", "1-3 Days", "4-5 Days", "6-9 Days", "10-30 Days", "31+ Days">>

\* label and ordinal follow the stated Policy B boundaries for the age a (half days)
PolicyBAsStated(a, label, id) ==
    /\ label \in SeqToSet(PolicyBLabels)
    /\ a < 1 * Day => label = "Current"
    /\ (1 * Day <= a /\ a <= 3 * Day) => label = "1-3 Days"
    /\ (4 * Day <= a /\ a <= 5 * Day) => label = "4-5 Days"
    /\ (6 * Day <= a /\ a <= 9 * Day) => label = "6-9 Days"
    /\ (10 * Day <= a /\ a <= 30 * Day) => label = "10-30 Days"
    /\ label = "31+ Days" => a > 30 * Day
    /\ PolicyBLabels[id + 1] = label

\* C10 as stated: Policy B gives every numeric age the label of the stated
\* boundaries, '31+ Days' only above 30, and get_bucket_id gives the position of
\* that label.
C10_PolicyBBoundaries ==
    /\ (bucket_b # "" /\ IsNum(days)) => PolicyBAsStated(days[1], bucket_b, bucket_id)
    /\ (report_bucket.Bucket # "" /\ IsNum(days)) =>
          PolicyBAsStated(days[1], report_bucket.Bucket, report_bucket.BucketID)

----------------------------------------------------------------------------
(* LoanReportGeneratorAPI: the field-officer loan report (src/arrange_Dues.py). *)
(* The Phone Number column, which no total reads, is left out of the rows.      *)

Unknown == <<"U", "n", "k", "n", "o", "w", "n">>
Blank == <<>>

\* the columns of the processed frame, and the ones that are summed
loan_columns == {"Client Name", "Installment No", "Amount Due", "Arrears",
                 "Amount Paid", "Loan Balance", "Field Officer"}
numeric_columns == <<"Amount Due", "Arrears", "Amount Paid", "Loan Balance">>
required_columns == {"FullNames", "FieldOfficer"}

\* str.upper()
str_upper(s) == [i \in 1..Len(s) |-> ToUpperCh(s[i])]

\* f"{x:,.2f}": x thousandths printed with two decimals
format_2f(x) == Round2(x)

\* the cell of an upload's column, None when the upload has no such column
raw_cell(file, r, c) == IF c \in file.columns THEN r[c] ELSE NaN

\* astype(str), non-numeric characters removed, '' to '0', to_numeric, fillna(0)
clean_numeric(c) == fillna(to_numeric(c), 0)

\* the order of sort_values(['Field Officer', 'Installment No', 'Client Name'])
RowLess(a, b) ==
    \/ StrLess(a["Field Officer"], b["Field Officer"])
    \/ /\ a["Field Officer"] = b["Field Officer"]
       /\ \/ a["Installment No"][1] < b["Installment No"][1]
          \/ /\ a["Installment No"] = b["Installment No"]
             /\ StrLess(a["Client Name"], b["Client Name"])

\* a stable sort of s by the strict order Less
StableSort(s, Less(_, _)) ==
    LET pos(k) == 1 + Cardinality({j \in 1..Len(s) :
                        Less(s[j], s[k]) \/ (~Less(s[k], s[j]) /\ j < k)})
    IN  [p \in 1..Len(s) |-> s[CHOOSE k \in 1..Len(s) : pos(k) = p]]

\* LoanReportGeneratorAPI.process_data
loan_process_data(file) ==
    LET row(r) ==
            ("Client Name" :> r["FullNames"]) @@
            ("Installment No" :> clean_numeric(raw_cell(file, r, "InstallmentNo"))) @@
            ("Amount Due" :> clean_numeric(raw_cell(file, r, "Amount Due"))) @@
            ("Arrears" :> clean_numeric(raw_cell(file, r, "Arrears"))) @@
            ("Amount Paid" :> clean_numeric(raw_cell(file, r, "AmountPaid"))) @@
            ("Loan Balance" :> clean_numeric(raw_cell(file, r, "LoanBalance"))) @@
            ("Field Officer" :> str_strip(IF r["FieldOfficer"] = NaNText THEN Unknown
                                          ELSE r["FieldOfficer"]))
    IN  StableSort([k \in 1..Len(file.rows) |-> row(file.rows[k])], RowLess)

\* self.df[self.df['Field Officer'] == group_name]
group_data(df, g) == SelectSeq(df, LAMBDA r : r["Field Officer"] = g)

\* group_data[col].sum()
subtotal(df, g, col) ==
    LET gd == group_data(df, g)
    IN  SumCells([k \in 1..Len(gd) |-> gd[k][col]])

\* an accumulation that keeps only the last subtotal
grand_totals_assign(acc, sub) == sub

\* self.grand_totals[col] += subtotal
grand_totals_add(acc, sub) == acc + sub

RECURSIVE accumulate(_, _, _)
\* self.grand_totals[col] after the loop over the groups gs
accumulate(df, gs, col) ==
    IF gs = <<>> THEN 0
    ELSE grand_totals_add(accumulate(df, SubSeq(gs, 1, Len(gs) - 1), col),
                          subtotal(df, gs[Len(gs)], col))

empty_row == [c \in loan_columns |-> Blank]

header_row(df, g) ==
    ("Client Name" :> <<"---", str_upper(g), Len(group_data(df, g))>>) @@ empty_row

subtotal_row(df, g) ==
    ("Client Name" :> <<"Subtotal", g>>) @@
    ("Installment No" :> Num(subtotal(df, g, "Installment No"))) @@
    [c \in SeqToSet(numeric_columns) |-> Num(subtotal(df, g, c))] @@ empty_row

summary_row(df, g) ==
    ("Client Name" :>
        <<"|", [i \in 1..Len(numeric_columns) |-> format_2f(subtotal(df, g, numeric_columns[i]))]>>)
    @@ empty_row

RECURSIVE group_rows_separated(_, _, _)
\* group rows with a separator after every group, the last one included
group_rows_separated(df, gs, idx) ==
    IF idx > Len(gs) THEN <<>>
    ELSE <<header_row(df, gs[idx])>> \o group_data(df, gs[idx])
         \o <<subtotal_row(df, gs[idx]), summary_row(df, gs[idx]), empty_row>>
         \o group_rows_separated(df, gs, idx + 1)

RECURSIVE group_rows(_, _, _)
\* the rows of the groups gs[idx..]: header, details, subtotal, summary line,
\* and a separator after every group but the last
group_rows(df, gs, idx) ==
    IF idx > Len(gs) THEN <<>>
    ELSE <<header_row(df, gs[idx])>> \o group_data(df, gs[idx])
         \o <<subtotal_row(df, gs[idx]), summary_row(df, gs[idx])>>
         \o (IF idx < Len(gs) THEN <<empty_row>> ELSE <<>>)
         \o group_rows(df, gs, idx + 1)

grand_total_row(totals) ==
    ("Client Name" :> <<"GRAND TOTAL">>) @@ [c \in DOMAIN totals |-> Num(totals[c])] @@ empty_row

final_summary_row(totals) ==
    ("Client Name" :>
        <<"|", [i \in 1..Len(numeric_columns) |-> format_2f(totals[numeric_columns[i]])]>>)
    @@ empty_row

\* add_summary_statistics: the rows it appends. self.final_df is None until a
\* report has been built on this object; reading its columns then raises, the
\* exception is swallowed and no row is added.
add_summary_statistics(df, gs, totals, prev_final) ==
    IF ~prev_final.built THEN <<>>
    ELSE LET total_clients == Len(df)
             clients_with_arrears == Len(SelectSeq(df, LAMBDA r : r["Arrears"][1] > 0))
         IN  << ("Client Name" :>
                    <<"SUMMARY: ",
                      [total_clients |-> total_clients,
                       field_officers |-> Len(gs),
                       clients_with_arrears |-> clients_with_arrears,
                       arrears_percentage |->
                           IF total_clients > 0
                           THEN Ratio(clients_with_arrears, total_clients) ELSE Num(0),
                       total_arrears |-> format_2f(totals["Arrears"]),
                       total_amount_due |-> format_2f(totals["Amount Due"])]>>)
                @@ empty_row >>

\* LoanReportGeneratorAPI.generate_report_structure
generate_report_structure(df, prev_final) ==
    LET gs == SortedNames({df[k]["Field Officer"] : k \in 1..Len(df)})
        totals == [c \in SeqToSet(numeric_columns) |-> accumulate(df, gs, c)]
        rows == group_rows(df, gs, 1)
                \o <<grand_total_row(totals), final_summary_row(totals)>>
                \o add_summary_statistics(df, gs, totals, prev_final)
    IN  [groups |-> gs, grand_totals |-> totals, final_df |-> [built |-> TRUE, rows |-> rows]]

\* LoanReportGeneratorAPI.generate_report: the object's fields and the returned
\* dictionary. self is [df, final_df, groups, grand_totals].
generate_report(self, file, output_format) ==
    IF ~file.readable
    THEN self @@ [result |-> [status |-> "error", message |-> "Failed to load file"]]
    ELSE IF ~(required_columns \subseteq file.columns)
    THEN [df |-> [stage |-> "loaded", rows |-> file.rows],
          result |-> [status |-> "error", message |-> "Missing required columns"]] @@ self
    ELSE LET df == loan_process_data(file)
             st == generate_report_structure(df, self.final_df)
             with_arrears == Len(SelectSeq(df, LAMBDA r : r["Arrears"][1] > 0))
         IN  [df |-> [stage |-> "processed", rows |-> df],
              final_df |-> st.final_df,
              groups |-> st.groups,
              grand_totals |-> st.grand_totals,
              result |->
                 IF output_format \notin {"xlsx", "csv"}
                 THEN [status |-> "error", message |-> "Unsupported output format"]
                 ELSE [status |-> "success",
                       message |-> "Report generated successfully",
                       summary |->
                          [total_clients |-> Len(df),
                           field_officers |-> Len(st.groups),
                           clients_with_arrears |-> with_arrears,
                           arrears_percentage |->
                              IF Len(df) > 0 THEN RoundRatio(100 * with_arrears, Len(df)) ELSE 0,
                           total_arrears |-> st.grand_totals["Arrears"],
                           total_amount_due |-> st.grand_totals["Amount Due"],
                           total_loan_balance |-> st.grand_totals["Loan Balance"]],
                       metadata |-> [record_count |-> Len(file.rows),
                                     group_count |-> Len(st.groups),
                                     output_format |-> output_format]]]

MaxLoanRows == 3
MaxLoanRuns == 2

LoanRow(n, i, d, a, p, b, o) ==
    ("FullNames" :> n) @@ ("InstallmentNo" :> i) @@ ("Amount Due" :> d) @@ ("Arrears" :> a) @@
    ("AmountPaid" :> p) @@ ("LoanBalance" :> b) @@ ("FieldOfficer" :> o)

\* loan rows: officers 'al' (also written ' al'), 'Brian W.' and a missing
\* officer; amounts with thousandths, a zero, a missing and an unparseable cell
LoanRows ==
    { LoanRow(<<"A">>, Num(2), Num(2500), Num(1004), Num(0), Num(10000), <<" ">> \o Al),
      LoanRow(<<"B">>, Num(1), Num(2500), Num(0), Num(2500), Num(7500), Al),
      LoanRow(<<"A">>, Num(1), Num(1004), TextCell, NaN, Num(2500), BrianW),
      LoanRow(<<"B">>, Num(1), Num(1004), Num(1004), Num(0), Num(1004), BrianW),
      LoanRow(<<"C">>, NaN, Num(2500), Num(200), Num(2500), NaN, NaNText) }

LoanColumns == {"FullNames", "InstallmentNo", "Amount Due", "Arrears", "AmountPaid",
                "LoanBalance", "FieldOfficer"}

\* the uploads: all columns, no Amount Paid and Loan Balance columns, no
\* FieldOfficer column, or a file that cannot be read
LoanFiles ==
    {[readable |-> TRUE, columns |-> LoanColumns, rows |-> t] : t \in Tables(LoanRows, MaxLoanRows)}
    \cup {[readable |-> TRUE, columns |-> LoanColumns \ {"AmountPaid", "LoanBalance"}, rows |-> t] :
             t \in Tables(LoanRows, 1)}
    \cup {[readable |-> TRUE, columns |-> LoanColumns \ {"FieldOfficer"}, rows |-> t] :
             t \in Tables(LoanRows, 1)}
    \cup {NoFile}

\* LoanReportGeneratorAPI.__init__ and the upload of the request(s)
LoanInit ==
    /\ loan_file \in LoanFiles
    /\ loan_df = [stage |-> "none", rows |-> <<>>]
    /\ loan_final_df = [built |-> FALSE, rows |-> <<>>]
    /\ groups = <<>>
    /\ grand_totals = <<>>
    /\ loan_result = <<>>
    /\ loan_runs = 0

\* one call of generate_report on the object, with the same upload
GenerateReport(output_format) ==
    /\ loan_df.stage # "off"
    /\ loan_runs < MaxLoanRuns
    /\ \E out \in {generate_report([df |-> loan_df, final_df |-> loan_final_df,
                                      groups |-> groups, grand_totals |-> grand_totals],
                                     loan_file, output_format)} :
           /\ loan_df' = out.df
           /\ loan_final_df' = out.final_df
           /\ groups' = out.groups
           /\ grand_totals' = out.grand_totals
           /\ loan_result' = out.result
    /\ loan_runs' = loan_runs + 1
    /\ UNCHANGED <<loan_file, arr_vars, bucket_vars, risk_vars, dash_vars, svc_vars>>

LoanNext == \E output_format \in {"xlsx", "csv", "pdf"} : GenerateReport(output_format)

\* only this component is in use
InitLoan == LoanInit /\ ArrIdle /\ BucketIdle /\ RiskIdle /\ DashIdle /\ SvcIdle

SpecLoan == InitLoan /\ [][LoanNext]_vars

----------------------------------------------------------------------------
(* ArrearsRiskAnalyzer (src/MTD_unpaid_dues.py).                              *)
(* Amounts are whole currency units here. A q-quantile is kept as its          *)
(* denominator times its value and a risk score as ScoreScale times its value, *)
(* so that every comparison is exact. The FundedAmount column, which nothing   *)
(* reads, is left out of the rows.                                             *)

Unassigned == <<"U", "n", "a", "s", "s", "i", "g", "n", "e", "d">>
None == <<>>
Digits == {"0", "1", "2", "3", "4", "5", "6", "7", "8", "9"}
RiskCategories == <<"High Risk", "Medium Risk", "Low Risk">>

\* astype(str).str.replace(r"\D", "", regex=True)
clean_phone(s) == SelectSeq(astype_str(s), LAMBDA c : c \in Digits)

\* pd.to_numeric(errors="coerce").fillna(0), as a number
numeric(c) == fillna(to_numeric(c), 0)[1]

\* ArrearsRiskAnalyzer.load_and_clean_data on a readable upload
risk_load(file) ==
    [k \in 1..Len(file.rows) |->
        LET r == file.rows[k]
        IN  [FullNames |-> r["FullNames"],
             PhoneNumber |-> clean_phone(r["PhoneNumber"]),
             InstallmentNo |-> numeric(r["InstallmentNo"]),
             AmountDue |-> numeric(r["Amount Due"]),
             Arrears |-> numeric(raw_cell(file, r, "Arrears")),
             LoanBalance |-> numeric(r["LoanBalance"]),
             FieldOfficer |-> IF "FieldOfficer" \in file.columns THEN r["FieldOfficer"]
                              ELSE Unassigned]]

\* the order of sort_values(by=["PhoneNumber", "InstallmentNo"])
PhoneLess(a, b) ==
    \/ StrLess(a.PhoneNumber, b.PhoneNumber)
    \/ a.PhoneNumber = b.PhoneNumber /\ a.InstallmentNo < b.InstallmentNo

RECURSIVE head1(_)
\* groupby("PhoneNumber").head(1): the first row of each account, in frame order
head1(s) ==
    IF s = <<>> THEN <<>>
    ELSE <<Head(s)>> \o head1(SelectSeq(Tail(s), LAMBDA r : r.PhoneNumber # Head(s).PhoneNumber))

RECURSIVE tail1(_)
\* groupby("PhoneNumber").tail(1): the last row of each account, in frame order
tail1(s) ==
    IF s = <<>> THEN <<>>
    ELSE IF \E j \in 2..Len(s) : s[j].PhoneNumber = Head(s).PhoneNumber THEN tail1(Tail(s))
    ELSE <<Head(s)>> \o tail1(Tail(s))

\* the MissedFlag of the account's latest row only
missed_inst_latest(df, phone) ==
    Cardinality({k \in 1..Len(df) :
                    /\ df[k].PhoneNumber = phone /\ df[k].Arrears > 0
                    /\ \A j \in 1..Len(df) :
                          df[j].PhoneNumber = phone => df[j].InstallmentNo <= df[k].InstallmentNo})

\* the MissedFlag sum of an account over all rows of the frame
missed_inst(df, phone) ==
    Cardinality({k \in 1..Len(df) : df[k].PhoneNumber = phone /\ df[k].Arrears > 0})

Min(a, b) == IF a <= b THEN a ELSE b

\* den * Series.quantile(num / den) of a non-empty column xs: linear
\* interpolation between the two nearest order statistics
quantile(xs, num, den) ==
    LET sorted == StableSort(xs, LAMBDA a, b : a < b)
        lo == ((Len(xs) - 1) * num) \div den
        r == ((Len(xs) - 1) * num) % den
    IN  IF r = 0 THEN den * sorted[lo + 1]
        ELSE (den - r) * sorted[lo + 1] + r * sorted[lo + 2]

\* the scale of the scores: 20 (the 0.95 quantile) times 20 (the weights)
ScoreScale == 400
CapScale == 20

\* arrears_capped * 0.50 + missed_capped * 0.35 + balance_capped * 0.15,
\* times ScoreScale; the caps are CapScale times the 0.95 quantiles
risk_score(arrears, missed, balance, arrears_cap, balance_cap) ==
    10 * Min(CapScale * arrears, arrears_cap) + 7 * CapScale * Min(missed, 12)
    + 3 * Min(CapScale * balance, balance_cap)

\* the hard rules, then thresholds that a score has to exceed
determine_category_strict(missed, arrears, score, q40, q75) ==
    IF missed >= 4 THEN "High Risk"
    ELSE IF arrears > 5000 THEN "High Risk"
    ELSE IF 4 * score > q75 THEN "High Risk"
    ELSE IF 5 * score > q40 THEN "Medium Risk"
    ELSE "Low Risk"

\* the percentile rule alone
determine_category_by_score(missed, arrears, score, q40, q75) ==
    IF 4 * score >= q75 THEN "High Risk"
    ELSE IF 5 * score >= q40 THEN "Medium Risk"
    ELSE "Low Risk"

\* determine_category; q40 is 5 times the 0.40 quantile and q75 is 4 times the
\* 0.75 quantile of the scores
determine_category(missed, arrears, score, q40, q75) ==
    IF missed >= 4 THEN "High Risk"
    ELSE IF arrears > 5000 THEN "High Risk"
    ELSE IF 4 * score >= q75 THEN "High Risk"
    ELSE IF 5 * score >= q40 THEN "Medium Risk"
    ELSE "Low Risk"

\* ArrearsRiskAnalyzer.calculate_risk_metrics on a non-empty frame: customer_risk
calculate_risk_metrics(df) ==
    LET latest == tail1(StableSort(df, PhoneLess))
        n == Len(latest)
        missed == [k \in 1..n |-> missed_inst(df, latest[k].PhoneNumber)]
        arrears_cap == quantile([k \in 1..n |-> latest[k].Arrears], 19, 20)
        balance_cap == quantile([k \in 1..n |-> latest[k].LoanBalance], 19, 20)
        scores == [k \in 1..n |->
                     risk_score(latest[k].Arrears, missed[k], latest[k].LoanBalance,
                                arrears_cap, balance_cap)]
        q40 == quantile(scores, 2, 5)
        q75 == quantile(scores, 3, 4)
        scored == [k \in 1..n |->
                     [MissedInstallments |-> missed[k],
                      RiskScore |-> scores[k],
                      RiskCategory |-> determine_category(missed[k], latest[k].Arrears,
                                                          scores[k], q40, q75)] @@ latest[k]]
    IN  StableSort(scored, LAMBDA a, b : a.RiskScore > b.RiskScore)

\* the officers groupby and pivot_table see: a missing officer is no group
officer_groups(cr) == SortedNames({cr[k].FieldOfficer : k \in 1..Len(cr)} \ {NaNText})

\* the Arrears sum of an officer's accounts, of one category or (cat = "") of all
arrears_of(cr, o, cat) ==
    LET rows == SelectSeq(cr, LAMBDA r : r.FieldOfficer = o /\ (cat = "" \/ r.RiskCategory = cat))
    IN  SumCells([k \in 1..Len(rows) |-> Num(rows[k].Arrears)])

\* the TOTAL row with the HighRisk% of the first officer row
matrix_total_kept(rows) ==
    LET sums == [c \in SeqToSet(RiskCategories) \cup {"TotalArrears"} |->
                    Num(SumCells(Column(rows, c)))]
    IN  [FieldOfficer |-> <<"T", "O", "T", "A", "L">>,
         v |-> ("HighRisk%" :> IF rows = <<>> THEN Num(0) ELSE rows[1].v["HighRisk%"]) @@ sums]

\* the TOTAL row: officer_matrix.sum(numeric_only=True), HighRisk% recomputed
matrix_total(rows) ==
    LET sums == [c \in SeqToSet(RiskCategories) \cup {"TotalArrears"} |->
                    Num(SumCells(Column(rows, c)))]
    IN  [FieldOfficer |-> <<"T", "O", "T", "A", "L">>,
         v |-> ("HighRisk%" :> IF sums["TotalArrears"][1] > 0
                               THEN Ratio(sums["High Risk"][1], sums["TotalArrears"][1])
                               ELSE Num(0)) @@ sums]

\* the officer risk matrix: pivot_table with fill_value=0, the three category
\* columns, TotalArrears, HighRisk%, sorted by TotalArrears, and the TOTAL row
officer_matrix(cr) ==
    LET os == officer_groups(cr)
        row(o) ==
            LET cats == [c \in SeqToSet(RiskCategories) |-> Num(arrears_of(cr, o, c))]
                total == SumCells([i \in 1..Len(RiskCategories) |-> cats[RiskCategories[i]]])
            IN  [FieldOfficer |-> o,
                 v |-> ("TotalArrears" :> Num(total)) @@
                       ("HighRisk%" :> fillna(true_divide(100 * cats["High Risk"][1], total), 0))
                       @@ cats]
        body == sort_values_desc([i \in 1..Len(os) |-> row(os[i])], "TotalArrears")
    IN  body \o <<matrix_total(body)>>

\* groupby("FieldOfficer")["Arrears"].sum(), sorted by Arrears descending
officer_arrears(cr) ==
    LET os == officer_groups(cr)
    IN  StableSort([i \in 1..Len(os) |-> [FieldOfficer |-> os[i], Arrears |-> arrears_of(cr, os[i], "")]],
                   LAMBDA a, b : a.Arrears > b.Arrears)

count_category(cr, cat) == Len(SelectSeq(cr, LAMBDA r : r.RiskCategory = cat))
in_arrears(cr) == Len(SelectSeq(cr, LAMBDA r : r.Arrears > 0))
total_arrears(cr) == SumCells([k \in 1..Len(cr) |-> Num(cr[k].Arrears)])

\* the one-row portfolio summary (amounts in units, rounded values in thousandths)
portfolio_summary(cr) ==
    [Total_Customers |-> Cardinality({cr[k].PhoneNumber : k \in 1..Len(cr)}),
     Customers_in_Arrears |-> in_arrears(cr),
     Portfolio_Arrears |-> total_arrears(cr),
     Average_Arrears_per_Customer |-> IF cr = <<>> THEN NaN ELSE Num(RoundRatio(total_arrears(cr), Len(cr))),
     Loans_in_Arrears_pct |-> IF cr = <<>> THEN NaN ELSE Num(RoundRatio(100 * in_arrears(cr), Len(cr))),
     High_Risk_Customers |-> count_category(cr, "High Risk"),
     Medium_Risk_Customers |-> count_category(cr, "Medium Risk"),
     Low_Risk_Customers |-> count_category(cr, "Low Risk")]

RECURSIVE by_installment(_, _)
\* the largest Arrears of each installment number in insts, by installment number
by_installment(df, insts) ==
    IF insts = {} THEN <<>>
    ELSE LET i == CHOOSE x \in insts : \A y \in insts : x <= y
             of_i == {df[k].Arrears : k \in {j \in 1..Len(df) : df[j].InstallmentNo = i}}
         IN  <<[InstallmentNo |-> i, Arrears |-> CHOOSE a \in of_i : \A b \in of_i : b <= a]>>
             \o by_installment(df, insts \ {i})

\* self.df.groupby("InstallmentNo")["Arrears"].max().sort_values("InstallmentNo")
arrears_by_inst(df) == by_installment(df, {df[k].InstallmentNo : k \in 1..Len(df)})

\* a row of a printable sheet: every field a cell, None where nothing is set
sheet_row(r) ==
    [FieldOfficer |-> IF r.FieldOfficer = NaNText THEN None ELSE r.FieldOfficer,
     FullNames |-> r.FullNames,
     PhoneNumber |-> <<r.PhoneNumber>>,
     InstallmentNo |-> Num(r.InstallmentNo),
     AmountDue |-> Num(r.AmountDue),
     Arrears |-> Num(r.Arrears),
     LoanBalance |-> Num(r.LoanBalance),
     MissedInstallments |-> Num(r.MissedInstallments),
     RiskScore |-> Num(r.RiskScore),
     RiskCategory |-> <<r.RiskCategory>>]

sheet_columns == {"FieldOfficer", "FullNames", "PhoneNumber", "InstallmentNo", "AmountDue",
                  "Arrears", "LoanBalance", "MissedInstallments", "RiskScore", "RiskCategory"}

make_spacer == [c \in sheet_columns |-> None]

make_row(officer, name_val, arrears, balance, missed, score, cat) ==
    [FieldOfficer |-> officer, FullNames |-> name_val, Arrears |-> arrears,
     LoanBalance |-> balance, MissedInstallments |-> missed, RiskScore |-> score,
     RiskCategory |-> cat] @@ make_spacer

\* the rows of one officer and one category, by RiskScore descending, and their subtotal
tier_rows(cr, o, cat) ==
    LET block == SelectSeq(cr, LAMBDA r : r.FieldOfficer = o /\ r.RiskCategory = cat)
        sum(f(_)) == Num(SumCells([k \in 1..Len(block) |-> Num(f(block[k]))]))
    IN  IF block = <<>> THEN <<>>
        ELSE [k \in 1..Len(block) |-> sheet_row(block[k])]
             \o <<make_row(o, <<cat, "SUBTOTAL">>,
                           sum(LAMBDA r : r.Arrears), sum(LAMBDA r : r.LoanBalance),
                           sum(LAMBDA r : r.MissedInstallments), sum(LAMBDA r : r.RiskScore),
                           <<cat>>)>>

RECURSIVE officer_blocks(_, _)
\* the blocks of the officers os: PORTFOLIO row, the three tiers, spacer
officer_blocks(cr, os) ==
    IF os = <<>> THEN <<>>
    ELSE <<make_row(Head(os), <<Head(os), "PORTFOLIO">>, None, None, None, None, None)>>
         \o tier_rows(cr, Head(os), "High Risk")
         \o tier_rows(cr, Head(os), "Medium Risk")
         \o tier_rows(cr, Head(os), "Low Risk")
         \o <<make_spacer>>
         \o officer_blocks(cr, Tail(os))

\* ArrearsRiskAnalyzer.build_printable_risk_sheet
build_printable_risk_sheet(cr) == officer_blocks(cr, officer_groups(cr))

early_columns == {"FieldOfficer", "FullNames", "PhoneNumber", "InstallmentNo", "AmountDue",
                  "Arrears", "LoanBalance", "RiskCategory", "DiagnosticNote"}

early_blank == [c \in early_columns |-> None]

\* the order of sort_values(by=["FieldOfficer", "Arrears"], ascending=[True, False])
EarlyLess(a, b) ==
    \/ StrLess(a.FieldOfficer, b.FieldOfficer)
    \/ a.FieldOfficer = b.FieldOfficer /\ a.Arrears > b.Arrears

early_row(r, note) ==
    [c \in early_columns |-> IF c = "DiagnosticNote" THEN note ELSE sheet_row(r)[c]]

early_sums(rows) ==
    [AmountDue |-> Num(SumCells([k \in 1..Len(rows) |-> Num(rows[k].AmountDue)])),
     Arrears |-> Num(SumCells([k \in 1..Len(rows) |-> Num(rows[k].Arrears)])),
     LoanBalance |-> Num(SumCells([k \in 1..Len(rows) |-> Num(rows[k].LoanBalance)]))]

RECURSIVE early_blocks(_, _)
\* per officer: header, the early rows, SUBTOTAL, blank
early_blocks(early_df, os) ==
    IF os = <<>> THEN <<>>
    ELSE LET block == SelectSeq(early_df, LAMBDA r : r.FieldOfficer = Head(os))
         IN  <<[FieldOfficer |-> Head(os), DiagnosticNote |-> <<Head(os), "Early Arrears">>]
                 @@ early_blank>>
             \o [k \in 1..Len(block) |-> early_row(block[k], <<"New Loan Arrears">>)]
             \o <<([FieldOfficer |-> Head(os), FullNames |-> <<"SUBTOTAL">>] @@ early_sums(block))
                    @@ early_blank>>
             \o <<early_blank>>
             \o early_blocks(early_df, Tail(os))

\* ArrearsRiskAnalyzer.build_early_arrears_report
build_early_arrears_report(cr) ==
    LET early_df == StableSort(SelectSeq(cr, LAMBDA r : r.FieldOfficer # NaNText
                                                  /\ r.InstallmentNo <= 2 /\ r.Arrears > 0),
                               EarlyLess)
        all_early == SelectSeq(cr, LAMBDA r : r.InstallmentNo <= 2 /\ r.Arrears > 0)
        blocks == early_blocks(early_df, officer_groups(early_df))
    IN  IF blocks = <<>> THEN <<>>
        ELSE blocks \o <<([FieldOfficer |-> <<"T", "O", "T", "A", "L">>,
                           FullNames |-> <<"GRAND TOTAL">>] @@ early_sums(all_early))
                          @@ early_blank>>

\* ArrearsRiskAnalyzer.generate_summary_statistics
generate_summary_statistics(cr, df) ==
    [officer_arrears |-> officer_arrears(cr),
     portfolio_summary |-> portfolio_summary(cr),
     officer_matrix |-> officer_matrix(cr),
     arrears_by_inst |-> arrears_by_inst(df),
     printable_risk |-> build_printable_risk_sheet(cr),
     early_arrears |-> build_early_arrears_report(cr)]

\* the columns calculate_risk_metrics reads; a missing one raises KeyError
risk_columns == {"PhoneNumber", "InstallmentNo", "Arrears", "LoanBalance"}

\* ArrearsRiskAnalyzer.analyze. On a frame without rows the outcome depends on
\* the pandas build (the row-wise apply returns a frame, which newer builds
\* refuse to store in one column): empty_raises chooses between the two.
analyze(file, empty_raises) ==
    LET unset == [df |-> <<>>, customer_risk |-> [scored |-> FALSE, rows |-> <<>>],
                  summaries |-> <<>>]
    IN
    IF ~file.readable
    THEN [result |-> [status |-> "error", message |-> "Error reading file"]] @@ unset
    ELSE IF ~(risk_columns \subseteq file.columns)
    THEN [df |-> file.rows,
          result |-> [status |-> "error", message |-> "Error calculating risk metrics"]] @@ unset
    ELSE IF file.rows = <<>> /\ empty_raises
    THEN [result |-> [status |-> "error", message |-> "Error calculating risk metrics"]] @@ unset
    ELSE LET df == risk_load(file)
             cr == IF df = <<>> THEN <<>> ELSE calculate_risk_metrics(df)
         IN  [df |-> df,
              customer_risk |-> [scored |-> TRUE, rows |-> cr],
              summaries |-> generate_summary_statistics(cr, df),
              result |->
                 [status |-> "success",
                  message |-> "Analysis complete",
                  record_count |-> Len(df),
                  summary |->
                     [total_customers |-> Len(cr),
                      high_risk |-> count_category(cr, "High Risk"),
                      medium_risk |-> count_category(cr, "Medium Risk"),
                      low_risk |-> count_category(cr, "Low Risk"),
                      total_arrears |-> total_arrears(cr),
                      avg_arrears |-> IF cr = <<>> THEN NaN ELSE <<total_arrears(cr), Len(cr)>>,
                      customers_in_arrears |-> in_arrears(cr),
                      loans_in_arrears_percent |->
                         IF cr = <<>> THEN NaN ELSE Ratio(in_arrears(cr), Len(cr))]]]

MaxRiskRows == 3

RiskRow(n, p, i, d, a, b, o) ==
    ("FullNames" :> n) @@ ("PhoneNumber" :> p) @@ ("InstallmentNo" :> i) @@ ("Amount Due" :> d) @@
    ("Arrears" :> a) @@ ("LoanBalance" :> b) @@ ("FieldOfficer" :> o)

\* installment rows: account 71 (also written 7-1) under two officers and with
\* arrears above 5000, account 72 with two rows of the same installment number
\* and a missing officer, account 73, and a row without a phone number
RiskRows ==
    { RiskRow(<<"N", "1">>, <<"7", "1">>, Num(1), Num(500), Num(0), Num(10000), Al),
      RiskRow(<<"N", "1">>, <<"7", "-", "1">>, Num(2), Num(500), Num(6000), Num(8000), BrianW),
      RiskRow(<<"N", "2">>, <<"7", "2">>, Num(1), Num(300), Num(300), Num(2000), BrianW),
      RiskRow(<<"N", "2">>, <<"7", "2">>, Num(1), Num(300), TextCell, Num(1500), NaNText),
      RiskRow(<<"N", "3">>, <<"7", "3">>, Num(3), Num(100), Num(100), Num(500), Al),
      RiskRow(<<"N", "4">>, NaNText, NaN, Num(200), Num(200), NaN, BrianW) }

MaxHistory == 5

\* the installment rows 1..n of account 75: four missed installments of a small
\* loan, paid up afterwards
HistoryRow(i) ==
    RiskRow(<<"N", "5">>, <<"7", "5">>, Num(i), Num(10), Num(IF i <= 4 THEN 10 ELSE 0),
            Num(100), Al)
History(n) == [i \in 1..n |-> HistoryRow(i)]

RiskColumns == {"FullNames", "PhoneNumber", "InstallmentNo", "Amount Due", "Arrears",
                "LoanBalance", "FieldOfficer"}

\* the uploads: all columns (the history of account 75 followed by other
\* installment rows), no FieldOfficer column, no Arrears column, or a
\* file that cannot be read
RiskFiles ==
    {[readable |-> TRUE, columns |-> RiskColumns, rows |-> History(n) \o t] :
        n \in 0..MaxHistory, t \in Tables(RiskRows, MaxRiskRows)}
    \cup {[readable |-> TRUE, columns |-> RiskColumns \ {"FieldOfficer"}, rows |-> t] :
             t \in Tables(RiskRows, 1)}
    \cup {[readable |-> TRUE, columns |-> RiskColumns \ {"Arrears"}, rows |-> t] :
             t \in Tables(RiskRows, 1)}
    \cup {NoFile}

\* ArrearsRiskAnalyzer.__init__ and the upload of the request
RiskInit ==
    /\ risk_file \in RiskFiles
    /\ risk_pc = "ready"
    /\ risk_df = <<>>
    /\ customer_risk = [scored |-> FALSE, rows |-> <<>>]
    /\ summaries = <<>>
    /\ risk_result = <<>>

\* analyze_arrears_risk: one analyzer, one call of analyze
Analyze(empty_raises) ==
    /\ risk_pc = "ready"
    /\ \E out \in {analyze(risk_file, empty_raises)} :
           /\ risk_df' = out.df
           /\ customer_risk' = out.customer_risk
           /\ summaries' = out.summaries
           /\ risk_result' = out.result
    /\ risk_pc' = "done"
    /\ UNCHANGED <<risk_file, arr_vars, bucket_vars, loan_vars, dash_vars, svc_vars>>

RiskNext == \E empty_raises \in BOOLEAN : Analyze(empty_raises)

\* only this component is in use
InitRisk == RiskInit /\ ArrIdle /\ BucketIdle /\ LoanIdle /\ DashIdle /\ SvcIdle

SpecRisk == InitRisk /\ [][RiskNext]_vars

----------------------------------------------------------------------------
(* EnterpriseDashboardAPI: the per-officer summary of the executive dashboard *)
(* (src/arrange_arrears.py). Amounts are whole currency units.                *)

\* generate_excel_report: groupby('SalesRep') sums, Risk_Pct, sorted by
\* Total_Arrears descending
rep_summary(df) ==
    With(SortedNames({df[k].SalesRep : k \in 1..Len(df)}), LAMBDA reps :
    With([i \in 1..Len(reps) |->
            With(SelectSeq(df, LAMBDA r : r.SalesRep = reps[i]), LAMBDA g :
            With(SumCells([k \in 1..Len(g) |-> Num(g[k].ArrearsAmount)]), LAMBDA arrears :
            With(SumCells([k \in 1..Len(g) |-> Num(g[k].LoanBalance)]), LAMBDA portfolio :
                [SalesRep |-> reps[i], Total_Arrears |-> arrears,
                 Total_Portfolio |-> portfolio, Client_Count |-> Len(g),
                 Risk_Pct |-> fillna(true_divide(arrears, portfolio), 0)])))], LAMBDA rows :
        StableSort(rows, LAMBDA a, b : a.Total_Arrears > b.Total_Arrears)))

MaxDashRows == 3

\* cleaned dashboard rows: accounts with and without a loan balance
DashRows ==
    { [SalesRep |-> Al, ArrearsAmount |-> 500, LoanBalance |-> 2000],
      [SalesRep |-> Al, ArrearsAmount |-> 0, LoanBalance |-> 0],
      [SalesRep |-> BrianW, ArrearsAmount |-> 500, LoanBalance |-> 0],
      [SalesRep |-> BrianW, ArrearsAmount |-> 300, LoanBalance |-> 1000] }

\* create_enterprise_dashboard has cleaned the upload and sorted it by SalesRep
DashInit ==
    /\ df_clean \in {t \in Tables(DashRows, MaxDashRows) \ {<<>>} :
                        \A i, j \in 1..Len(t) : i < j => ~StrLess(t[j].SalesRep, t[i].SalesRep)}
    /\ pivot_rep = [built |-> FALSE, rows |-> <<>>]

GenerateExcelReport ==
    /\ df_clean # <<>> /\ ~pivot_rep.built
    /\ pivot_rep' = [built |-> TRUE, rows |-> rep_summary(df_clean)]
    /\ UNCHANGED <<df_clean, arr_vars, bucket_vars, loan_vars, risk_vars, svc_vars>>

\* only this component is in use
InitDash == DashInit /\ ArrIdle /\ BucketIdle /\ LoanIdle /\ RiskIdle /\ SvcIdle

----------------------------------------------------------------------------
(* The pipeline: one run of one of the five components *)

Init == InitArrears \/ InitBucket \/ InitLoan \/ InitRisk \/ InitDash

Next == ArrNext \/ BucketNext \/ LoanNext \/ RiskNext \/ GenerateExcelReport

Spec == Init /\ [][Next]_vars

----------------------------------------------------------------------------
(* Grand totals of the three aggregate tables, under Spec *)

\* the first token of a loan report row's Client Name: '---' on a header,
\* 'Subtotal', '|', 'GRAND TOTAL', 'SUMMARY: ', or the first letter of a client
ClientTag(r) == IF r["Client Name"] = Blank THEN "" ELSE r["Client Name"][1]

LoanRowsTagged(tag) == SelectSeq(loan_final_df.rows, LAMBDA r : ClientTag(r) = tag)

\* the columns of the summary pivot that its grand-total row sums
PivotSummed == (SeqToSet(VALID_BUCKETS) \cup {"Grand Total", "Target"}) \cap DOMAIN pivot[1].v

PivotTotalsAreSums ==
    (Succeeded /\ pivot # <<>>) =>
        /\ pivot[Len(pivot)].SalesRep = GRAND_TOTAL
        /\ \A k \in 1..Len(OfficerRows(pivot)) : pivot[k].SalesRep # GRAND_TOTAL
        /\ \A c \in PivotSummed :
              pivot[Len(pivot)].v[c] = Num(SumCells(Column(OfficerRows(pivot), c)))

LoanTotalsAreSums ==
    loan_final_df.built =>
        /\ Len(LoanRowsTagged("GRAND TOTAL")) = 1
        /\ Len(LoanRowsTagged("Subtotal")) = Len(groups)
        /\ \A c \in SeqToSet(numeric_columns) :
              /\ LoanRowsTagged("GRAND TOTAL")[1][c] =
                    Num(SumCells([k \in 1..Len(groups) |-> LoanRowsTagged("Subtotal")[k][c]]))
              /\ grand_totals[c] = LoanRowsTagged("GRAND TOTAL")[1][c][1]

MatrixTotalsAreSums ==
    (risk_pc = "done" /\ risk_result.status = "success") =>
        LET m == summaries.officer_matrix
        IN  /\ m # <<>>
            /\ m[Len(m)].FieldOfficer = <<"T", "O", "T", "A", "L">>
            /\ \A c \in SeqToSet(RiskCategories) \cup {"TotalArrears"} :
                  m[Len(m)].v[c] = Num(SumCells(Column(OfficerRows(m), c)))

\* C1: in the summary pivot, the loan report and the officer risk matrix, every
\* summed numeric column of the grand-total row equals the sum of that column
\* over the per-officer rows (the per-officer subtotal rows in the loan report),
\* on the values before any 2-decimal rounding.
C1_GrandTotalsAreSums == PivotTotalsAreSums /\ LoanTotalsAreSums /\ MatrixTotalsAreSums

\* a loan report of three officer groups, each with arrears, whose total is in
\* thousandths that the display rounding would change
C1_Witness ==
    /\ loan_final_df.built
    /\ Len(groups) >= 3
    /\ \A k \in 1..Len(groups) : LoanRowsTagged("Subtotal")[k]["Arrears"][1] > 0
    /\ format_2f(grand_totals["Arrears"]) # grand_totals["Arrears"]

----------------------------------------------------------------------------
(* C11 - C14: the risk scorer *)

Scored == risk_pc = "done" /\ customer_risk.scored
Accounts == customer_risk.rows
Scores == [k \in 1..Len(Accounts) |-> Accounts[k].RiskScore]

\* 5 times the 40th and 4 times the 75th percentile of the cohort's scores
P40 == quantile(Scores, 2, 5)
P75 == quantile(Scores, 3, 4)

HardRule(r) == r.MissedInstallments >= 4 \/ r.Arrears > 5000

CategoryOf(k) == Accounts[k].RiskCategory

\* C12: every scored account has exactly one of the three categories, and an
\* account with MissedInstallments < 4 and Arrears <= 5000 is 'High Risk' iff
\* its score >= p75, 'Medium Risk' iff p40 <= score < p75 and 'Low Risk' iff
\* score < p40, p40 and p75 being the cohort's 40th and 75th percentiles.
C12_PercentileRule ==
    Scored => \A k \in 1..Len(Accounts) :
        /\ CategoryOf(k) \in SeqToSet(RiskCategories)
        /\ ~HardRule(Accounts[k]) =>
              /\ CategoryOf(k) = "High Risk" <=> 4 * Scores[k] >= P75
              /\ CategoryOf(k) = "Medium Risk" <=>
                    (5 * Scores[k] >= P40 /\ 4 * Scores[k] < P75)
              /\ CategoryOf(k) = "Low Risk" <=> 5 * Scores[k] < P40

\* a cohort in which the percentile rule gives each of the three categories
C12_Witness ==
    /\ Scored
    /\ \A c \in SeqToSet(RiskCategories) :
          \E k \in 1..Len(Accounts) : ~HardRule(Accounts[k]) /\ CategoryOf(k) = c

\* the rows of the upload, and the rows of it that belong to a scored account
InputRows == risk_file.rows
SameAccount(j, k) == clean_phone(InputRows[j]["PhoneNumber"]) = Accounts[k].PhoneNumber

\* C13: MissedInstallments of a scored account is the number of the account's
\* input rows, over all of its installment rows, whose arrears are above 0.
C13_MissedCountsAllRows ==
    Scored => \A k \in 1..Len(Accounts) :
        Accounts[k].MissedInstallments =
            Cardinality({j \in 1..Len(InputRows) :
                            SameAccount(j, k) /\ numeric(InputRows[j]["Arrears"]) > 0})

\* an account whose latest row has no arrears and which missed installments
\* before, and an account with more rows than missed installments
C13_Witness ==
    /\ Scored
    /\ \E k \in 1..Len(Accounts) :
          Accounts[k].Arrears = 0 /\ Accounts[k].MissedInstallments >= 2
    /\ \E k \in 1..Len(Accounts) :
          /\ Accounts[k].Arrears > 0 /\ Accounts[k].MissedInstallments = 1
          /\ Cardinality({j \in 1..Len(InputRows) : SameAccount(j, k)}) >= 2

\* the distinct accounts of the upload
InputAccounts == {clean_phone(InputRows[j]["PhoneNumber"]) : j \in 1..Len(InputRows)}

\* row j of the upload is a row of account k with the highest installment
\* number of the account
LatestOf(j, k) ==
    /\ SameAccount(j, k)
    /\ \A i \in 1..Len(InputRows) :
          SameAccount(i, k) =>
              numeric(InputRows[i]["InstallmentNo"]) <= numeric(InputRows[j]["InstallmentNo"])

\* C14: there is exactly one scored record per distinct account of the input,
\* and its arrears, loan balance and officer are those of the account's row
\* with the highest installment number.
C14_LatestRowPerAccount ==
    Scored =>
        /\ {Accounts[k].PhoneNumber : k \in 1..Len(Accounts)} = InputAccounts
        /\ Len(Accounts) = Cardinality(InputAccounts)
        /\ \A k \in 1..Len(Accounts) :
              \E j \in 1..Len(InputRows) :
                  /\ LatestOf(j, k)
                  /\ Accounts[k].Arrears = numeric(InputRows[j]["Arrears"])
                  /\ Accounts[k].LoanBalance = numeric(InputRows[j]["LoanBalance"])
                  /\ "FieldOfficer" \in risk_file.columns =>
                        Accounts[k].FieldOfficer = InputRows[j]["FieldOfficer"]

\* an account whose rows differ in arrears, balance and officer, uploaded with
\* its latest installment first
C14_Witness ==
    /\ Scored /\ "FieldOfficer" \in risk_file.columns
    /\ \E k \in 1..Len(Accounts) : \E i, j \in 1..Len(InputRows) :
          /\ j < i /\ LatestOf(j, k) /\ SameAccount(i, k) /\ ~LatestOf(i, k)
          /\ InputRows[i]["Arrears"] # InputRows[j]["Arrears"]
          /\ InputRows[i]["LoanBalance"] # InputRows[j]["LoanBalance"]
          /\ InputRows[i]["FieldOfficer"] # InputRows[j]["FieldOfficer"]

----------------------------------------------------------------------------
(* C15, C16: the ratio columns *)

HasTargets == Succeeded /\ pivot # <<>> /\ "Target" \in DOMAIN pivot[1].v
MatrixBuilt == risk_pc = "done" /\ risk_result.status = "success"

RiskPctZero ==
    pivot_rep.built => \A k \in 1..Len(pivot_rep.rows) :
        pivot_rep.rows[k].Total_Portfolio = 0 => pivot_rep.rows[k].Risk_Pct = Num(0)

AchievementZero ==
    HasTargets => \A k \in 1..Len(pivot) :
        pivot[k].v["Target"] = Num(0) => pivot[k].v["Achievement %"] = Num(0)

HighRiskZero ==
    MatrixBuilt => \A k \in 1..Len(summaries.officer_matrix) :
        summaries.officer_matrix[k].v["TotalArrears"] = Num(0) =>
            summaries.officer_matrix[k].v["HighRisk%"] = Num(0)

\* C15 as stated: whenever the denominator of a ratio column is 0 (an officer's
\* total portfolio for Risk %, a target for Achievement %, a total of arrears
\* for HighRisk%), the ratio is exactly 0, for any numerator.
C15_ZeroDenominatorIsZero == RiskPctZero /\ AchievementZero /\ HighRiskZero

\* the cell c is the quotient n / d * 100, kept as the pair <<100 n, d>>
IsPercentOf(c, n, d) == c = <<100 * n, d>>

PivotTotal == pivot[Len(pivot)].v
MatrixRows == summaries.officer_matrix
MatrixTotal == MatrixRows[Len(MatrixRows)].v

\* C16: the ratio of a grand-total row is its numerator total divided by its
\* denominator total (Achievement % = Grand Total / Target x 100, HighRisk% =
\* High Risk / TotalArrears x 100), not a sum or average of the officers' ratios.
C16_RatioOfTotals ==
    /\ (HasTargets /\ PivotTotal["Target"][1] > 0) =>
          IsPercentOf(PivotTotal["Achievement %"],
                      PivotTotal["Grand Total"][1], PivotTotal["Target"][1])
    /\ (MatrixBuilt /\ MatrixTotal["TotalArrears"][1] > 0) =>
          IsPercentOf(MatrixTotal["HighRisk%"],
                      MatrixTotal["High Risk"][1], MatrixTotal["TotalArrears"][1])

\* a matrix of two officers of different size, one all High Risk (100 %) and
\* one without High Risk (0 %): the sum of the ratios is 100 and their average
\* 50, the ratio of the totals is neither
C16_Witness ==
    /\ MatrixBuilt /\ Len(MatrixRows) = 3
    /\ \E i, j \in 1..2 :
          /\ MatrixRows[i].v["High Risk"] = MatrixRows[i].v["TotalArrears"]
          /\ MatrixRows[j].v["High Risk"] = Num(0)
          /\ MatrixRows[j].v["TotalArrears"][1] > 0
          /\ MatrixRows[i].v["TotalArrears"][1] > MatrixRows[j].v["TotalArrears"][1]
    /\ MatrixTotal["HighRisk%"][1] # 100 * MatrixTotal["HighRisk%"][2]
    /\ 2 * MatrixTotal["HighRisk%"][1] # 100 * MatrixTotal["HighRisk%"][2]

----------------------------------------------------------------------------
(* C17: the row sequence of the field-officer report, under SpecLoan *)

ReportBuilt == loan_final_df.built
Report == loan_final_df.rows

\* what a report row is: its kind, and the officer of a header, detail or
\* subtotal row
RowKind(r) ==
    LET tag == ClientTag(r)
    IN  IF \A c \in DOMAIN r : r[c] = Blank THEN <<"blank">>
        ELSE IF tag = "---" THEN <<"header", r["Client Name"][2]>>
        ELSE IF tag = "Subtotal" THEN <<"subtotal", r["Client Name"][2]>>
        ELSE IF tag = "|" THEN <<"summary line">>
        ELSE IF tag = "GRAND TOTAL" THEN <<"grand total">>
        ELSE IF tag = "SUMMARY: " THEN <<"statistics">>
        ELSE <<"detail", r["Field Officer"]>>

ReportKinds == [k \in 1..Len(Report) |-> RowKind(Report[k])]

\* the officers of the processed frame in canonical order
OfficersInOrder == SortedNames({loan_df.rows[k]["Field Officer"] : k \in 1..Len(loan_df.rows)})

\* header, one detail row per client of the officer, subtotal, summary line
Block(g) ==
    <<<<"header", str_upper(g)>>>>
    \o [i \in 1..Cardinality({k \in 1..Len(loan_df.rows) : loan_df.rows[k]["Field Officer"] = g})
           |-> <<"detail", g>>]
    \o <<<<"subtotal", g>>, <<"summary line">>>>

RECURSIVE Joined(_, _)
\* the blocks of the officers gs with the rows between put between them
Joined(gs, between) ==
    IF gs = <<>> THEN <<>>
    ELSE IF Len(gs) = 1 THEN Block(gs[1])
    ELSE Block(gs[1]) \o between \o Joined(Tail(gs), between)

GrandTotalPart == <<<<"grand total">>, <<"summary line">>>>
OneGrandTotal == Cardinality({k \in 1..Len(Report) : ReportKinds[k] = <<"grand total">>}) = 1

----------------------------------------------------------------------------
(* C18: the order of the groups in the three grouped outputs, under Spec *)

PivotBuilt == Succeeded /\ pivot # <<>>
PivotOfficers == SubSeq(pivot, 1, Len(pivot) - 1)

\* the officers of the summary pivot in ascending order of name
PivotOfficersAscending ==
    PivotBuilt => \A i, j \in 1..Len(PivotOfficers) :
        i < j => StrLess(PivotOfficers[i].SalesRep, PivotOfficers[j].SalesRep)

\* the officers of the summary pivot in descending order of Grand Total
PivotByGrandTotal ==
    PivotBuilt => \A i, j \in 1..Len(PivotOfficers) :
        i < j => PivotOfficers[i].v["Grand Total"][1] >= PivotOfficers[j].v["Grand Total"][1]

\* the bucket columns of the pivot come first, in the order of the policy
BucketColumnsInPolicyOrder ==
    PivotBuilt =>
        /\ SeqToSet(pivot_columns(officer_targets)) = DOMAIN pivot[1].v
        /\ SubSeq(pivot_columns(officer_targets), 1, 3) = <<"1-15", "16-30", "31-180">>

SheetAccounts == SelectSeq(summaries.printable_risk, LAMBDA r : r.PhoneNumber # None)
TierRank(cat) == IF cat = "High Risk" THEN 1 ELSE IF cat = "Medium Risk" THEN 2 ELSE 3

\* the account rows of the printable risk sheet: officers ascending, and High,
\* Medium, Low within an officer
SheetOrdered ==
    MatrixBuilt => \A i, j \in 1..Len(SheetAccounts) :
        i < j =>
           \/ StrLess(SheetAccounts[i].FieldOfficer, SheetAccounts[j].FieldOfficer)
           \/ /\ SheetAccounts[i].FieldOfficer = SheetAccounts[j].FieldOfficer
              /\ TierRank(SheetAccounts[i].RiskCategory[1]) <= TierRank(SheetAccounts[j].RiskCategory[1])

\* the detail rows of the field-officer report: officers ascending
LoanOfficersAscending ==
    ReportBuilt => \A i, j \in 1..Len(Report) :
        (i < j /\ ReportKinds[i][1] = "detail" /\ ReportKinds[j][1] = "detail") =>
            ~StrLess(Report[j]["Field Officer"], Report[i]["Field Officer"])

\* C18 as stated: in the summary pivot, the printable risk sheet and the
\* field-officer report the officer groups come in ascending order of name,
\* and within an officer the buckets or risk tiers in the policy's order.
C18_OfficersAscendingEverywhere ==
    PivotOfficersAscending /\ BucketColumnsInPolicyOrder /\ SheetOrdered /\ LoanOfficersAscending

\* C18 as built: the risk sheet and the field-officer report present the
\* officers in ascending order of name, the summary pivot in descending order
\* of Grand Total; buckets and risk tiers come in the policy's order.
C18_PivotByGrandTotal ==
    PivotByGrandTotal /\ BucketColumnsInPolicyOrder /\ SheetOrdered /\ LoanOfficersAscending

\* a pivot whose first officer collected more and has the greater name
C18_Witness ==
    /\ PivotBuilt /\ Len(PivotOfficers) = 2
    /\ StrLess(PivotOfficers[2].SalesRep, PivotOfficers[1].SalesRep)
    /\ PivotOfficers[1].v["Grand Total"][1] > PivotOfficers[2].v["Grand Total"][1]

----------------------------------------------------------------------------
(* C19: a second run of the report on the same upload, under SpecLoan *)

\* C19: a run of the report pipeline on the input of the run before it yields
\* the same output table, the same rows in the same order, also when it is
\* made on the generator object that made the first run.
C19_RerunSameRows ==
    [][(loan_final_df.built /\ loan_final_df'.built) =>
           loan_final_df'.rows = loan_final_df.rows]_vars

----------------------------------------------------------------------------
(* C20: what a call of process takes from the calls before it, under SpecArrears *)

\* the officer_targets argument left out
NoTargets == [given |-> FALSE, map |-> <<>>]

\* a summary without target columns and a result without target fields
TargetFree(summary, res) ==
    /\ summary # <<>> => DOMAIN summary[1].v \cap TargetColumns = {}
    /\ {"targets", "officer_targets"} \cap DOMAIN res = {}
    /\ "excel_data" \in DOMAIN res => "targets" \notin DOMAIN res.excel_data.statistics

\* C20: a call of process without officer targets returns a summary with no
\* Target, Remaining or Achievement % column and no target fields, whatever
\* targets the earlier calls on the object were given.
C20_NoTargetsNoTargetColumns ==
    [][\A output_format \in {"json", "excel"} :
          Process(NoTargets, output_format) => TargetFree(pivot', result')]_vars

----------------------------------------------------------------------------
(* The branch endpoints of src/Dormant_Arrangement.py: one module-level        *)
(* BranchDataProcessorAPI serves every request. An upload has a Phone column   *)
(* and, unless it is malformed, a Branch column; the quality checks, which the *)
(* data does not depend on, are left out of the answer.                        *)

P07 == <<"0", "7", "1", "2", "3", "4", "5", "6", "7", "8">>
P07Dashed == <<"0", "7", "1", "2", "-", "3", "4", "5", "6", "7", "8">>
P254 == <<"2", "5", "4", "7", "0", "0", "0", "0", "0", "0", "0", "1">>
P7 == <<"7", "2", "2", "2", "2", "2", "2", "2", "2">>
PShort == <<"1", "2", "3", "4", "5">>
NA == <<"N", "/", "A">>
East == <<"E", "a", "s", "t">>
West == <<"W", "e", "s", "t">>

default_options ==
    [remove_duplicates |-> TRUE, fill_na |-> TRUE, add_formatting |-> TRUE,
     output_format |-> "excel"]

\* BranchDataProcessorAPI.set_options: the valid keys of the argument are taken
set_options(options, arg) ==
    [k \in DOMAIN options |-> IF k \in DOMAIN arg THEN arg[k] ELSE options[k]]

\* one cell of normalize_phone_numbers_vectorized: fillna(''), the digits, the
\* four masks taken on the digits, the three prefixings in their order, '' for
\* what no mask accepts, 'N/A' for '' when fill_na is set
normalize_phone(cell, fill_na) ==
    LET d == IF cell = NaNText THEN <<>> ELSE SelectSeq(cell, LAMBDA c : c \in Digits)
        mask_07 == IsPrefix(<<"0", "7">>, d) /\ Len(d) = 10
        mask_7 == IsPrefix(<<"7">>, d) /\ Len(d) = 9
        mask_9digit == Len(d) = 9 /\ ~IsPrefix(<<"0">>, d)
        mask_254 == IsPrefix(<<"2", "5", "4">>, d) /\ Len(d) = 12
        a == IF mask_07 THEN <<"2", "5", "4">> \o Tail(d) ELSE d
        b == IF mask_7 THEN <<"2", "5", "4">> \o a ELSE a
        c == IF mask_9digit THEN <<"2", "5", "4">> \o b ELSE b
        e == IF ~mask_254 /\ ~mask_07 /\ ~mask_7 /\ ~mask_9digit /\ Len(c) > 0 THEN <<>> ELSE c
    IN  IF fill_na /\ e = <<>> THEN NA ELSE e

\* deduplicate_phone_numbers: the first row of every phone number is kept; ''
\* and 'N/A' are no duplicates
deduplicate_phone_numbers(rows) ==
    SelectSeq([k \in 1..Len(rows) |->
                  [row |-> rows[k],
                   dup |-> /\ rows[k].Phone \notin {<<>>, NA}
                           /\ \E j \in 1..(k - 1) : rows[j].Phone = rows[k].Phone]],
              LAMBDA x : ~x.dup)

\* BranchDataProcessorAPI.load_data on a readable upload: the fields it leaves
\* and its answer. self.df is assigned before the branch column is looked for.
load_data(self, file) ==
    IF "Branch" \notin file.columns
    THEN [df |-> file, branches |-> self.branches,
          result |-> [status |-> "error", message |-> "No branch column found in the file!"]]
    ELSE LET names == SortedNames({file.rows[k].Branch : k \in 1..Len(file.rows)} \ {NaNText})
         IN  IF names = <<>>
             THEN [df |-> file, branches |-> names,
                   result |-> [status |-> "error", message |-> "No branches found in the file"]]
             ELSE [df |-> file, branches |-> names,
                   result |-> [status |-> "success", total_records |-> Len(file.rows),
                               branch_names |-> names]]

\* BranchDataProcessorAPI.process_branch: its answer
process_branch(self, branch_name) ==
    IF self.df = <<>>
    THEN [status |-> "error", message |-> "No data loaded. Please load data first."]
    ELSE IF branch_name \notin SeqToSet(self.branches)
    THEN [status |-> "error", message |-> "Branch not found"]
    ELSE IF "Branch" \notin self.df.columns
    THEN [status |-> "error", message |-> "No branch column found!"]
    ELSE LET branch_data == SelectSeq(self.df.rows, LAMBDA r : r.Branch = branch_name)
             normalized == [k \in 1..Len(branch_data) |->
                              [Phone |-> normalize_phone(branch_data[k].Phone,
                                                         self.options.fill_na)]]
             deduplicated == IF self.options.remove_duplicates
                             THEN [k \in 1..Len(deduplicate_phone_numbers(normalized)) |->
                                      deduplicate_phone_numbers(normalized)[k].row]
                             ELSE normalized
         IN  IF branch_data = <<>>
             THEN [status |-> "error", message |-> "No data found for branch"]
             ELSE [status |-> "success", branch |-> branch_name,
                   total_records |-> Len(deduplicated),
                   duplicates_removed |-> Len(normalized) - Len(deduplicated),
                   phone_columns_normalized |-> 1,
                   sample_data |-> deduplicated]

MaxBranchCalls == 2
Clients == {1, 2}

BranchRow(b, ph) == [Branch |-> b, Phone |-> ph]

\* the uploads: two files that both have a branch East, a file whose branch
\* cells are all empty, and a file without a branch column
BranchFiles ==
    { [columns |-> {"Branch", "Phone"},
       rows |-> <<BranchRow(East, P07), BranchRow(East, P07Dashed), BranchRow(West, P7)>>],
      [columns |-> {"Branch", "Phone"},
       rows |-> <<BranchRow(East, P254), BranchRow(East, NaNText), BranchRow(East, PShort)>>],
      [columns |-> {"Branch", "Phone"}, rows |-> <<BranchRow(NaNText, P07)>>],
      [columns |-> {"Phone"}, rows |-> <<[Phone |-> P07]>>] }

\* the options of a request: none, or a dictionary
OptionArgs ==
    { <<>>, [remove_duplicates |-> FALSE], [fill_na |-> FALSE, colour |-> "red"] }

\* the module is imported: processor = BranchDataProcessorAPI()
BranchInit ==
    /\ b_df = <<>>
    /\ b_branches = <<>>
    /\ b_options = default_options
    /\ b_client = [c \in Clients |->
                     [loaded |-> <<>>, options |-> default_options, resp |-> <<>>, calls |-> 0]]

Processor == [df |-> b_df, branches |-> b_branches, options |-> b_options]

\* POST /api/branch/load by client c
LoadBranchData(c, file, options) ==
    /\ b_client # <<>> /\ b_client[c].calls < MaxBranchCalls
    /\ \E opts \in {set_options(b_options, options)} :
       \E out \in {load_data([df |-> b_df, branches |-> b_branches, options |-> opts], file)} :
           /\ b_options' = opts
           /\ b_df' = out.df
           /\ b_branches' = out.branches
           /\ b_client' = [b_client EXCEPT ![c] =
                  [loaded |-> IF out.result.status = "success" THEN file ELSE @.loaded,
                   options |-> set_options(@.options, options),
                   resp |-> [endpoint |-> "load",
                             code |-> IF out.result.status = "error" THEN 400 ELSE 200,
                             body |-> out.result],
                   calls |-> @.calls + 1]]
    /\ UNCHANGED <<arr_vars, bucket_vars, loan_vars, risk_vars, dash_vars,
                   hist_vars, prog_vars, upload_vars, page_vars>>

\* POST /api/branch/process by client c
ProcessBranch(c, branch_name, options) ==
    /\ b_client # <<>> /\ b_client[c].calls < MaxBranchCalls
    /\ \E opts \in {set_options(b_options, options)} :
       \E out \in {process_branch([df |-> b_df, branches |-> b_branches, options |-> opts],
                                  branch_name)} :
           /\ b_options' = opts
           /\ b_client' = [b_client EXCEPT ![c] =
                  [loaded |-> @.loaded,
                   options |-> set_options(@.options, options),
                   resp |-> [endpoint |-> "process", branch |-> branch_name,
                             code |-> IF out.status = "error" THEN 400 ELSE 200,
                             body |-> out],
                   calls |-> @.calls + 1]]
    /\ UNCHANGED <<b_df, b_branches, arr_vars, bucket_vars, loan_vars, risk_vars, dash_vars,
                   hist_vars, prog_vars, upload_vars, page_vars>>

BranchNext ==
    \E c \in Clients, options \in OptionArgs :
        \/ \E file \in BranchFiles : LoadBranchData(c, file, options)
        \/ \E branch_name \in {East, West} : ProcessBranch(c, branch_name, options)

CoreIdle == ArrIdle /\ BucketIdle /\ LoanIdle /\ RiskIdle /\ DashIdle
InitBranch == BranchInit /\ CoreIdle /\ HistIdle /\ ProgIdle /\ UploadIdle /\ PageIdle

SpecBranch == InitBranch /\ [][BranchNext]_vars

\* C21: a process request of a client that has loaded a file is answered from
\* the rows and with the options of that client's own requests, whatever the
\* requests of the other clients in between.
C21_OwnDataAndOptions ==
    \A c \in Clients :
        (b_client[c].resp # <<>> /\ b_client[c].resp.endpoint = "process"
            /\ b_client[c].loaded # <<>>) =>
        b_client[c].resp.body =
            process_branch(load_data([df |-> <<>>, branches |-> <<>>,
                                      options |-> b_client[c].options],
                                     b_client[c].loaded)
                           @@ [options |-> b_client[c].options],
                           b_client[c].resp.branch)

----------------------------------------------------------------------------
(* C22: records without an officer *)

DefaultOfficers == {Unassigned, Unknown}

\* the reconciler: a start-of-day row without an officer is in the merged table
\* under a default name
ArrearsDefaultsOfficer ==
    Succeeded => \A r \in SeqToSet(SodRowsIn) :
        (r.SalesRep = NaNText /\ ~isna(r.LoanId) /\ IsNum(r.ArrearsAmount)) =>
            \E k \in 1..Len(df_merged) :
                df_merged[k].LoanId = r.LoanId /\ df_merged[k].SalesRep \in DefaultOfficers

\* the risk analyzer: a scored account without an officer has a row of the
\* printable sheet, under a default name
RiskDefaultsOfficer ==
    MatrixBuilt => \A k \in 1..Len(Accounts) :
        (Accounts[k].FieldOfficer = NaNText \/ "FieldOfficer" \notin risk_file.columns) =>
            \E i \in 1..Len(SheetAccounts) :
                /\ SheetAccounts[i].PhoneNumber = <<Accounts[k].PhoneNumber>>
                /\ SheetAccounts[i].FieldOfficer \in DefaultOfficers

\* the loan report: a client without an officer has a detail row under a
\* default name
LoanDefaultsOfficer ==
    ReportBuilt => \A r \in SeqToSet(loan_file.rows) :
        r["FieldOfficer"] = NaNText =>
            \E k \in 1..Len(Report) :
                /\ RowKind(Report[k]) = <<"detail", Unknown>>
                /\ Report[k]["Client Name"] = r["FullNames"]

\* C22: a record whose officer is absent is kept in the output and grouped under
\* 'Unassigned' or 'Unknown', in the reconciler, the risk analyzer and the loan
\* report.
C22_AbsentOfficerDefault ==
    ArrearsDefaultsOfficer /\ RiskDefaultsOfficer /\ LoanDefaultsOfficer

----------------------------------------------------------------------------
(* C23: the printable risk sheet *)

Sheet == summaries.printable_risk
IsDetail(r) == r.PhoneNumber # None
IsSpacer(r) == \A c \in DOMAIN r : r[c] = None
IsPortfolio(r) == ~IsDetail(r) /\ Len(r.FullNames) = 2 /\ r.FullNames[2] = "PORTFOLIO"
IsSubtotal(r) == ~IsDetail(r) /\ Len(r.FullNames) = 2 /\ r.FullNames[2] = "SUBTOTAL"

\* detail row i lies in the block of officer o: the last PORTFOLIO row above it
\* is the one of o
InBlockOf(i, o) ==
    \E p \in 1..(i - 1) :
        /\ IsPortfolio(Sheet[p]) /\ Sheet[p].FieldOfficer = o
        /\ \A j \in (p + 1)..(i - 1) : ~IsPortfolio(Sheet[j]) /\ ~IsSpacer(Sheet[j])

\* detail row i lies under tier cat: only detail rows of the tier stand between
\* it and the tier's subtotal row
UnderTier(i, cat) ==
    \E q \in (i + 1)..Len(Sheet) :
        /\ IsSubtotal(Sheet[q]) /\ Sheet[q].RiskCategory = <<cat>>
        /\ \A j \in i..(q - 1) : IsDetail(Sheet[j]) /\ Sheet[j].RiskCategory = <<cat>>

\* every scored account has exactly one detail row, in its officer's block and
\* under its tier
OneDetailRowPerAccount ==
    MatrixBuilt => \A k \in 1..Len(Accounts) :
        \E i \in 1..Len(Sheet) :
            /\ IsDetail(Sheet[i]) /\ Sheet[i].PhoneNumber = <<Accounts[k].PhoneNumber>>
            /\ \A j \in 1..Len(Sheet) :
                  (IsDetail(Sheet[j]) /\ Sheet[j].PhoneNumber = Sheet[i].PhoneNumber) => j = i
            /\ InBlockOf(i, Accounts[k].FieldOfficer)
            /\ UnderTier(i, Accounts[k].RiskCategory)

\* the detail rows are rows of scored accounts
DetailRowsAreAccounts ==
    MatrixBuilt => \A i \in 1..Len(Sheet) :
        IsDetail(Sheet[i]) =>
            \E k \in 1..Len(Accounts) : Sheet[i] = sheet_row(Accounts[k])

\* the run of detail rows that ends above row q
RECURSIVE TierAbove(_)
TierAbove(q) == IF q > 1 /\ IsDetail(Sheet[q - 1]) THEN TierAbove(q - 1) \cup {q - 1} ELSE {}

\* a subtotal row closes a non-empty run of detail rows of its tier and carries
\* the sum of their arrears; every run of detail rows is closed by one
TierSubtotals ==
    MatrixBuilt =>
        /\ \A q \in 1..Len(Sheet) :
              IsSubtotal(Sheet[q]) =>
                  /\ TierAbove(q) # {}
                  /\ \A j \in TierAbove(q) : Sheet[j].RiskCategory = Sheet[q].RiskCategory
                  /\ Sheet[q].Arrears =
                        Num(SumCells([j \in 1..Cardinality(TierAbove(q)) |->
                                         Sheet[q - j].Arrears]))
        /\ \A i \in 1..Len(Sheet) :
              IsDetail(Sheet[i]) =>
                  /\ i < Len(Sheet)
                  /\ IsDetail(Sheet[i + 1]) \/ IsSubtotal(Sheet[i + 1])

\* a spacer row stands above the PORTFOLIO row of every officer but the first
SpacerBetweenOfficers ==
    MatrixBuilt => \A p \in 2..Len(Sheet) :
        IsPortfolio(Sheet[p]) => IsSpacer(Sheet[p - 1])

\* C23: the printable risk sheet has exactly one detail row per scored account,
\* inside the block of the account's officer and under the account's tier; each
\* non-empty tier of an officer is followed by one subtotal row with the sum of
\* the tier's arrears; a spacer row separates consecutive officers.
C23_PrintableSheetComplete ==
    /\ OneDetailRowPerAccount
    /\ DetailRowsAreAccounts
    /\ TierSubtotals
    /\ SpacerBetweenOfficers

----------------------------------------------------------------------------
(* The chunked upload endpoints of src/routes/v1/uploads.py over one            *)
(* UploadSession row (src/models/upload_session.py), each behind require_auth   *)
(* (src/middleware/auth.py). A request carries a valid token, no token or an    *)
(* invalid one, and names the session or an unknown one. u_files is the set of  *)
(* chunk files in the session directory; u_resp is the last request with its    *)
(* answer, the number of requests so far and the chunk numbers received so far. *)

MaxUploadRequests == 5
Tokens == {"valid", "none", "invalid"}
TotalChunks == {1, 2}
ChunkNumbers == {1, 2, 7}

\* require_auth: what the wrapper puts into g, and whether it calls the handler
require_auth(token) ==
    [user_id |-> 1, device_id |-> "bypass_device", roles |-> <<"admin", "user">>,
     call |-> TRUE]

\* UploadSession.is_complete
is_complete(self) ==
    IF self.total_chunks = 0 \/ self.uploaded_chunks = <<>> THEN FALSE
    ELSE Len(self.uploaded_chunks) >= self.total_chunks

\* UploadSession.get_progress, as the ratio 100 * uploaded / total
get_progress(self) ==
    IF self.total_chunks = 0 THEN <<0, 1>>
    ELSE <<100 * Len(self.uploaded_chunks), self.total_chunks>>

\* UploadSession.add_chunk: the object in memory (mem) and the row after the
\* commit (row). uploaded_chunks is a plain JSON column: a list assigned to it is
\* written, an append to the list loaded from the row is written or not.
add_chunk(self, chunk_number, written) ==
    IF chunk_number \in SeqToSet(self.uploaded_chunks) THEN [mem |-> self, row |-> self]
    ELSE LET appended == Append(self.uploaded_chunks, chunk_number)
         IN  [mem |-> [self EXCEPT !.uploaded_chunks = appended, !.status = "uploading"],
              row |-> [self EXCEPT !.uploaded_chunks =
                                       IF self.uploaded_chunks = <<>> \/ written
                                       THEN appended ELSE @,
                                   !.status = "uploading"]]

\* UploadSession.mark_completed
mark_completed(self) == [self EXCEPT !.status = "completed"]

\* UploadSession.mark_failed
mark_failed(self) == [self EXCEPT !.status = "failed"]

\* sorted(session.uploaded_chunks)
sorted_chunks(chunks) == StableSort(chunks, LAMBDA a, b : a < b)

NoSession ==
    [exists |-> FALSE, user_id |-> 0, total_chunks |-> 0, uploaded_chunks |-> <<>>,
     status |-> "none", expired |-> FALSE]

\* the application has started, the upload_sessions table is empty
UploadInit ==
    /\ u_session = NoSession
    /\ u_files = {}
    /\ u_resp = [endpoint |-> "none", token |-> "valid", code |-> 0, handler_ran |-> FALSE,
                 body |-> <<>>, requests |-> 0, received |-> {}]

Answered(endpoint, token, code, ran, body, received) ==
    u_resp' = [endpoint |-> endpoint, token |-> token, code |-> code, handler_ran |-> ran,
               body |-> body, requests |-> u_resp.requests + 1, received |-> received]

\* what stops a handler that looks the session up: the answer code, or 0
lookup_error(known, user_id) ==
    IF ~known \/ ~u_session.exists THEN 404
    ELSE IF u_session.user_id # user_id THEN 403
    ELSE 0

UploadOther == <<arr_vars, bucket_vars, loan_vars, risk_vars, dash_vars,
                 hist_vars, prog_vars, branch_vars, page_vars>>

\* POST /initiate
InitiateUpload(token, total_chunks) ==
    /\ u_session # <<>> /\ u_resp.requests < MaxUploadRequests
    /\ ~u_session.exists
    /\ \E auth \in {require_auth(token)} :
          IF ~auth.call
          THEN /\ Answered("initiate", token, 401, FALSE, <<>>, u_resp.received)
               /\ UNCHANGED <<u_session, u_files>>
          ELSE /\ u_session' = [exists |-> TRUE, user_id |-> auth.user_id,
                                total_chunks |-> total_chunks, uploaded_chunks |-> <<>>,
                                status |-> "initiated", expired |-> FALSE]
               /\ Answered("initiate", token, 201, TRUE, <<>>, u_resp.received)
               /\ UNCHANGED u_files
    /\ UNCHANGED UploadOther

\* the clock passes expires_at
Expire ==
    /\ u_session # <<>> /\ u_session.exists /\ ~u_session.expired
    /\ u_session' = [u_session EXCEPT !.expired = TRUE]
    /\ UNCHANGED <<u_files, u_resp, UploadOther>>

\* POST /chunk with the headers X-Upload-Id and X-Chunk-Number
UploadChunk(token, known, chunk_number, written) ==
    /\ u_session # <<>> /\ u_resp.requests < MaxUploadRequests
    /\ \E auth \in {require_auth(token)} :
          IF ~auth.call
          THEN /\ Answered("chunk", token, 401, FALSE, <<>>, u_resp.received)
               /\ UNCHANGED <<u_session, u_files>>
          ELSE IF lookup_error(known, auth.user_id) # 0
          THEN /\ Answered("chunk", token, lookup_error(known, auth.user_id), TRUE, <<>>,
                           u_resp.received)
               /\ UNCHANGED <<u_session, u_files>>
          ELSE IF u_session.expired
          THEN /\ Answered("chunk", token, 400, TRUE, <<>>, u_resp.received)
               /\ UNCHANGED <<u_session, u_files>>
          ELSE \E out \in {add_chunk(u_session, chunk_number, written)} :
               /\ u_files' = u_files \cup {chunk_number}
               /\ u_session' = out.row
               /\ Answered("chunk", token, 200, TRUE,
                           [chunk_number |-> chunk_number,
                            progress |-> get_progress(out.mem),
                            is_complete |-> is_complete(out.mem),
                            uploaded_chunks |-> out.mem.uploaded_chunks],
                           u_resp.received \cup {chunk_number})
    /\ UNCHANGED UploadOther

\* POST /complete
CompleteUpload(token, known) ==
    /\ u_session # <<>> /\ u_resp.requests < MaxUploadRequests
    /\ \E auth \in {require_auth(token)} :
          IF ~auth.call
          THEN /\ Answered("complete", token, 401, FALSE, <<>>, u_resp.received)
               /\ UNCHANGED <<u_session, u_files>>
          ELSE IF lookup_error(known, auth.user_id) # 0
          THEN /\ Answered("complete", token, lookup_error(known, auth.user_id), TRUE, <<>>,
                           u_resp.received)
               /\ UNCHANGED <<u_session, u_files>>
          ELSE IF ~is_complete(u_session)
          THEN /\ Answered("complete", token, 400, TRUE, <<>>, u_resp.received)
               /\ UNCHANGED <<u_session, u_files>>
          ELSE IF SeqToSet(u_session.uploaded_chunks) \subseteq u_files
          THEN /\ u_files' = {}
               /\ u_session' = mark_completed(u_session)
               /\ Answered("complete", token, 200, TRUE,
                           [merged |-> sorted_chunks(u_session.uploaded_chunks)],
                           u_resp.received)
          ELSE /\ u_session' = mark_failed(u_session)
               /\ Answered("complete", token, 400, TRUE, <<>>, u_resp.received)
               /\ UNCHANGED u_files
    /\ UNCHANGED UploadOther

\* DELETE /<session_id>
CancelUpload(token, known) ==
    /\ u_session # <<>> /\ u_resp.requests < MaxUploadRequests
    /\ \E auth \in {require_auth(token)} :
          IF ~auth.call
          THEN /\ Answered("cancel", token, 401, FALSE, <<>>, u_resp.received)
               /\ UNCHANGED <<u_session, u_files>>
          ELSE IF lookup_error(known, auth.user_id) # 0
          THEN /\ Answered("cancel", token, lookup_error(known, auth.user_id), TRUE, <<>>,
                           u_resp.received)
               /\ UNCHANGED <<u_session, u_files>>
          ELSE /\ u_files' = {}
               /\ u_session' = mark_failed(u_session)
               /\ Answered("cancel", token, 200, TRUE, <<>>, u_resp.received)
    /\ UNCHANGED UploadOther

UploadNext ==
    \/ \E token \in Tokens, total_chunks \in TotalChunks : InitiateUpload(token, total_chunks)
    \/ Expire
    \/ \E token \in Tokens, known \in BOOLEAN, chunk_number \in ChunkNumbers,
          written \in BOOLEAN : UploadChunk(token, known, chunk_number, written)
    \/ \E token \in Tokens, known \in BOOLEAN : CompleteUpload(token, known)
    \/ \E token \in Tokens, known \in BOOLEAN : CancelUpload(token, known)

InitUpload == UploadInit /\ CoreIdle /\ HistIdle /\ ProgIdle /\ BranchIdle /\ PageIdle

SpecUpload == InitUpload /\ [][UploadNext]_vars

\* C24: a request to a protected endpoint without a token, or with an invalid
\* one, is answered 401 and its handler body is not executed.
C24_NoTokenNoHandler ==
    (u_resp # <<>> /\ u_resp.requests > 0 /\ u_resp.token \in {"none", "invalid"}) =>
        u_resp.code = 401 /\ ~u_resp.handler_ran

----------------------------------------------------------------------------
(* C27, C28: completion and the final states of an upload session *)

AllChunksReceived ==
    \A n \in 1..u_session.total_chunks : n \in u_resp.received

\* C27: is_complete answers true, and complete_upload merges and marks the
\* session 'completed', only if every chunk number 1..total_chunks has been
\* uploaded; numbers outside 1..total_chunks do not count.
C27_CompleteNeedsEveryChunk ==
    (u_session # <<>> /\ u_session.exists) =>
        /\ (u_resp.endpoint = "chunk" /\ u_resp.code = 200 /\ u_resp.body.is_complete)
              => AllChunksReceived
        /\ (u_resp.endpoint = "complete" /\ u_resp.code = 200) => AllChunksReceived
        /\ u_session.status = "completed" => AllChunksReceived

Finished == u_session # <<>> /\ u_session.status \in {"completed", "failed"}

\* C28: once a session is 'completed' or 'failed', no request changes its
\* status or its list of uploaded chunks.
C28_FinishedSessionsStay ==
    [][Finished => /\ u_session'.status = u_session.status
                   /\ u_session'.uploaded_chunks = u_session.uploaded_chunks]_vars

----------------------------------------------------------------------------
(* The dormant-arrangement endpoint of src/routes/v1/loans.py and the cursor of *)
(* src/utils/pagination.py. A client uploads the same file with every request   *)
(* and follows the cursor: pg_cursor is [walk, after] with walk "start" before  *)
(* the first request, "next" while the last answer had has_more, "end" after;   *)
(* pg_pages are the pages received; pg_last is the last answer. A cursor is a   *)
(* text; the only cursors of a walk are the ones the endpoint has returned.     *)

MaxRecords == 4

DigitChars == <<"0", "1", "2", "3", "4", "5", "6", "7", "8", "9">>

RECURSIVE int_str(_)
\* str(k) of a non-negative integer
int_str(k) == IF k < 10 THEN <<DigitChars[k + 1]>>
              ELSE int_str(k \div 10) \o <<DigitChars[(k % 10) + 1]>>

RECURSIVE str_int(_)
\* int(s) of a text of digits
str_int(s) == IF s = <<>> THEN 0
              ELSE 10 * str_int(SubSeq(s, 1, Len(s) - 1))
                   + (CHOOSE d \in 0..9 : DigitChars[d + 1] = s[Len(s)])

\* the ASCII codes of the characters of a cursor's JSON text
Ascii ==
    (" " :> 32) @@ ("\"" :> 34) @@ ("0" :> 48) @@ ("1" :> 49) @@ ("2" :> 50) @@ ("3" :> 51) @@
    ("4" :> 52) @@ ("5" :> 53) @@ ("6" :> 54) @@ ("7" :> 55) @@ ("8" :> 56) @@ ("9" :> 57) @@
    (":" :> 58) @@ ("e" :> 101) @@ ("f" :> 102) @@ ("o" :> 111) @@ ("s" :> 115) @@
    ("t" :> 116) @@ ("{" :> 123) @@ ("}" :> 125)

\* the alphabet of base64.urlsafe_b64encode
B64Alphabet ==
    <<"A", "B", "C", "D", "E", "F", "G", "H", "I", "J", "K", "L", "M", "N", "O", "P",
      "Q", "R", "S", "T", "U", "V", "W", "X", "Y", "Z", "a", "b", "c", "d", "e", "f",
      "g", "h", "i", "j", "k", "l", "m", "n", "o", "p", "q", "r", "s", "t", "u", "v",
      "w", "x", "y", "z", "0", "1", "2", "3", "4", "5", "6", "7", "8", "9", "-", "_">>

\* base64.urlsafe_b64encode of a sequence of bytes: three bytes to four characters,
\* '=' padding
b64encode(bytes) ==
    LET byte(i) == IF i <= Len(bytes) THEN bytes[i] ELSE 0
        group(g) == byte(3 * g + 1) * 65536 + byte(3 * g + 2) * 256 + byte(3 * g + 3)
        sextet(n, j) == IF j = 1 THEN n \div 262144
                        ELSE IF j = 2 THEN (n \div 4096) % 64
                        ELSE IF j = 3 THEN (n \div 64) % 64
                        ELSE n % 64
    IN  [p \in 1..(4 * ((Len(bytes) + 2) \div 3)) |->
            LET g == (p - 1) \div 4
                j == ((p - 1) % 4) + 1
            IN  IF 3 * g + j - 1 <= Len(bytes)
                THEN B64Alphabet[sextet(group(g), j) + 1]
                ELSE "="]

\* base64.urlsafe_b64decode of a padded text of the alphabet
b64decode(text) ==
    LET value(c) == IF c = "=" THEN 0
                    ELSE (CHOOSE i \in 1..64 : B64Alphabet[i] = c) - 1
        group(g) == value(text[4 * g + 1]) * 262144 + value(text[4 * g + 2]) * 4096
                    + value(text[4 * g + 3]) * 64 + value(text[4 * g + 4])
        pad == Cardinality({i \in 1..Len(text) : text[i] = "="})
    IN  [p \in 1..(3 * (Len(text) \div 4) - pad) |->
            LET n == group((p - 1) \div 3)
                j == ((p - 1) % 3) + 1
            IN  IF j = 1 THEN n \div 65536
                ELSE IF j = 2 THEN (n \div 256) % 256
                ELSE n % 256]

\* json.dumps({'offset': k}, sort_keys=True)
json_dumps(data) ==
    <<"{", "\"", "o", "f", "f", "s", "e", "t", "\"", ":", " ">> \o int_str(data.offset) \o <<"}">>

\* json.loads of a text: the dictionary of a text json_dumps writes; any other
\* text raises
json_loads(text) ==
    LET head == <<"{", "\"", "o", "f", "f", "s", "e", "t", "\"", ":", " ">>
        digits == SubSeq(text, Len(head) + 1, Len(text) - 1)
    IN  IF /\ Len(text) > Len(head) + 1 /\ SubSeq(text, 1, Len(head)) = head
           /\ text[Len(text)] = "}" /\ \A i \in 1..Len(digits) : digits[i] \in Digits
        THEN [ok |-> TRUE, value |-> [offset |-> str_int(digits)]]
        ELSE [ok |-> FALSE, value |-> <<>>]

\* PaginationCursor.encode_cursor
encode_cursor(data) ==
    LET json_str == json_dumps(data)
    IN  b64encode([i \in 1..Len(json_str) |-> Ascii[json_str[i]]])

\* json.loads(json_str) inside decode_cursor: {} when it raises
loads_or_empty(json_str) ==
    With(json_loads(json_str), LAMBDA r : IF r.ok THEN r.value ELSE <<>>)

\* bytes.decode() and json.loads inside decode_cursor: {} when one of them raises
decode_bytes(bytes) ==
    IF \E i \in 1..Len(bytes) : \A c \in DOMAIN Ascii : Ascii[c] # bytes[i]
    THEN <<>>
    ELSE With([i \in 1..Len(bytes) |-> CHOOSE c \in DOMAIN Ascii : Ascii[c] = bytes[i]],
              loads_or_empty)

\* PaginationCursor.decode_cursor: {} on any exception
decode_cursor(cursor) ==
    IF \/ Len(cursor) % 4 # 0
       \/ \E i \in 1..Len(cursor) : cursor[i] \notin SeqToSet(B64Alphabet) \cup {"="}
    THEN <<>>
    ELSE With(b64decode(cursor), decode_bytes)

\* get_pagination_params: the limit of a request whose 'limit' argument is
\* absent (<<>>) or an integer
get_pagination_params(limit_arg) ==
    LET limit == IF limit_arg = <<>> THEN 20 ELSE limit_arg[1]
        capped == IF limit < 100 THEN limit ELSE 100
    IN  IF capped > 1 THEN capped ELSE 1

\* the offset the next cursor carries
next_offset_past(end_idx) == end_idx

\* the offset the next cursor carries: end_idx - 1
next_offset(end_idx) == end_idx - 1

\* df.iloc[start:end], positions counted from 0
iloc(df, start, end) ==
    SubSeq(df, start + 1, IF end < Len(df) THEN end ELSE Len(df))

\* process_dormant: start_idx of a request with the 'after' argument (<<>> when
\* absent)
start_index(after_cursor) ==
    IF after_cursor = <<>> THEN 0
    ELSE With(decode_cursor(after_cursor),
              LAMBDA cursor_data : IF "offset" \in DOMAIN cursor_data
                                   THEN cursor_data.offset ELSE 0)

\* process_dormant: the result dictionary of a request that reads df from
\* start_idx with the page size limit
page_from(df, limit, start_idx) ==
    LET end_idx == start_idx + limit + 1
        records == iloc(df, start_idx, end_idx)
        has_more == Len(records) > limit
        page_records == SubSeq(records, 1, IF has_more THEN limit ELSE Len(records))
    IN  [data |-> page_records,
         pagination |-> [next_cursor |-> IF has_more
                                         THEN encode_cursor([offset |-> next_offset(end_idx)])
                                         ELSE None,
                         has_more |-> has_more,
                         limit |-> limit,
                         total_count |-> Len(df)],
         summary |-> [total_records |-> Len(df)]]

\* process_dormant: the result dictionary of a request with the upload df, the
\* 'limit' argument and the 'after' argument
process_dormant(df, limit_arg, after_cursor) ==
    With(start_index(after_cursor),
         LAMBDA start_idx : page_from(df, get_pagination_params(limit_arg), start_idx))

\* success_response
success_response(data) == [success |-> TRUE, data |-> data]

\* the 'limit' arguments of the requests
LimitArgs == {<<>>, <<0>>, <<1>>, <<2>>, <<3>>, <<150>>}

\* the uploads: up to MaxRecords rows, equal rows among them
PageFiles == Tables({1, 2}, MaxRecords)

\* a client has a file and a page size and has not sent a request yet
PageInit ==
    /\ pg_records \in PageFiles
    /\ pg_limit \in LimitArgs
    /\ pg_cursor = [walk |-> "start", after |-> <<>>]
    /\ pg_pages = <<>>
    /\ pg_last = <<>>

\* POST /dormant-arrangement with the file, the limit and, after the first
\* request, the cursor of the last answer
ProcessDormant ==
    /\ pg_cursor.walk \in {"start", "next"}
    /\ \E out \in {process_dormant(pg_records, pg_limit, pg_cursor.after)} :
          /\ pg_last' = success_response(out)
          /\ pg_pages' = Append(pg_pages, out.data)
          /\ pg_cursor' = IF out.pagination.has_more
                          THEN [walk |-> "next", after |-> out.pagination.next_cursor]
                          ELSE [walk |-> "end", after |-> <<>>]
    /\ UNCHANGED <<pg_records, pg_limit, arr_vars, bucket_vars, loan_vars, risk_vars,
                   dash_vars, hist_vars, prog_vars, upload_vars, branch_vars>>

PageNext == ProcessDormant

InitPage == PageInit /\ CoreIdle /\ HistIdle /\ ProgIdle /\ UploadIdle /\ BranchIdle

SpecPage == InitPage /\ [][PageNext]_vars

\* a client that has a next cursor sends the next request
SpecPageWalk == InitPage /\ [][PageNext]_vars /\ WF_vars(ProcessDormant)

RECURSIVE Concat(_)
Concat(pages) == IF pages = <<>> THEN <<>> ELSE Head(pages) \o Concat(Tail(pages))

PageSize == get_pagination_params(pg_limit)
Walking == pg_cursor.walk \in {"start", "next", "end"}
WalkEnded == pg_cursor.walk = "end"

\* the pages so far are a prefix of the input, each of at most L records, and the
\* last answer has a next_cursor key, which is null exactly when has_more is false
PagesArePrefix ==
    Walking =>
        /\ \A i \in 1..Len(pg_pages) : Len(pg_pages[i]) <= PageSize
        /\ Concat(pg_pages) = SubSeq(pg_records, 1, Len(Concat(pg_pages)))
        /\ pg_last # <<>> =>
              /\ "next_cursor" \in DOMAIN pg_last.data.pagination
              /\ pg_last.data.pagination.has_more <=>
                    pg_last.data.pagination.next_cursor # None
        /\ WalkEnded =>
              /\ Concat(pg_pages) = pg_records
              /\ ~pg_last.data.pagination.has_more
              /\ pg_last.data.pagination.next_cursor = None

----------------------------------------------------------------------------
(* ProgressTracker of src/utils/progress.py, shared by threads that each call   *)
(* increment(1) once, and a caller that may cancel. p_thr[t] is thread t's      *)
(* position in increment/update and the step it has computed; p_lock is the     *)
(* holder of self._lock, 0 when it is free.                                     *)

MaxThreads == 3
MaxTotalSteps == 3

\* min(step, self.total_steps)
capped_step(step, total_steps) == IF step < total_steps THEN step ELSE total_steps

\* a tracker of total_steps steps that earlier update calls have brought to
\* current_step, and the threads about to call increment
ProgInit ==
    /\ p_total \in 1..MaxTotalSteps
    /\ p_step \in 0..p_total
    /\ p_start = p_step
    /\ p_cancelled = FALSE
    /\ p_lock = 0
    /\ p_thr \in {[t \in 1..n |-> [pc |-> "call", step |-> 0]] : n \in 1..MaxThreads}

ProgOther == <<arr_vars, bucket_vars, loan_vars, risk_vars, dash_vars,
               hist_vars, upload_vars, branch_vars, page_vars>>

\* increment: the argument self.current_step + steps of the call of update
Increment(t) ==
    /\ p_thr[t].pc = "call"
    /\ p_thr' = [p_thr EXCEPT ![t] = [pc |-> "acquire", step |-> p_step + 1]]
    /\ UNCHANGED <<p_total, p_step, p_start, p_cancelled, p_lock, ProgOther>>

\* update: with self._lock
Acquire(t) ==
    /\ p_thr[t].pc = "acquire" /\ p_lock = 0
    /\ p_lock' = t
    /\ p_thr' = [p_thr EXCEPT ![t].pc = "locked"]
    /\ UNCHANGED <<p_total, p_step, p_start, p_cancelled, ProgOther>>

\* update: the body under the lock; ProgressCancelled leaves the with block
Update(t) ==
    /\ p_thr[t].pc = "locked"
    /\ IF p_cancelled
       THEN /\ p_thr' = [p_thr EXCEPT ![t].pc = "raised"]
            /\ UNCHANGED p_step
       ELSE /\ p_step' = capped_step(p_thr[t].step, p_total)
            /\ p_thr' = [p_thr EXCEPT ![t].pc = "updated"]
    /\ UNCHANGED <<p_total, p_start, p_cancelled, p_lock, ProgOther>>

\* update: the end of the with block
Release(t) ==
    /\ p_thr[t].pc \in {"updated", "raised"} /\ p_lock = t
    /\ p_lock' = 0
    /\ p_thr' = [p_thr EXCEPT ![t].pc = IF @ = "updated" THEN "done" ELSE "cancelled"]
    /\ UNCHANGED <<p_total, p_step, p_start, p_cancelled, ProgOther>>

\* cancel, by the caller
Cancel ==
    /\ p_thr # <<>> /\ p_lock = 0 /\ ~p_cancelled
    /\ p_cancelled' = TRUE
    /\ UNCHANGED <<p_total, p_step, p_start, p_lock, p_thr, ProgOther>>

ProgNext ==
    \/ \E t \in DOMAIN p_thr : Increment(t)
    \/ \E t \in DOMAIN p_thr : Acquire(t)
    \/ \E t \in DOMAIN p_thr : Update(t)
    \/ \E t \in DOMAIN p_thr : Release(t)
    \/ Cancel

InitProgress == ProgInit /\ CoreIdle /\ HistIdle /\ UploadIdle /\ BranchIdle /\ PageIdle

SpecProgress == InitProgress /\ [][ProgNext]_vars

AllReturned == p_thr # <<>> /\ \A t \in DOMAIN p_thr : p_thr[t].pc = "done"

\* C26: when N threads have each called increment(1) once on a tracker that is
\* not cancelled, current_step is min(initial current_step + N, total_steps).
C26_NoLostIncrement ==
    (AllReturned /\ ~p_cancelled) => p_step = capped_step(p_start + Len(p_thr), p_total)

----------------------------------------------------------------------------
(* ProcessingHistory of src/Dormant_Arrangement.py. A frame handed to add_state *)
(* is its number: the frames are told apart. h_index is the 0-based             *)
(* current_index, so the current state is h_history[h_index + 1]. h_call is the *)
(* last call: what it was, the index and the current state it found, and what   *)
(* the call before it was and whether that one returned a state.                *)

MaxAdds == 12

\* self.history[self.current_index], None when there is none
current_state(history, index) ==
    IF index >= 0 /\ index < Len(history) THEN <<history[index + 1]>> ELSE None

\* add_state that never drops the oldest state
add_state_unbounded(history, index, df) ==
    LET kept == IF index < Len(history) - 1 THEN SubSeq(history, 1, index + 1) ELSE history
    IN  [history |-> Append(kept, df), index |-> index + 1]

\* ProcessingHistory.add_state
add_state(history, index, df) ==
    LET kept == IF index < Len(history) - 1 THEN SubSeq(history, 1, index + 1) ELSE history
        appended == Append(kept, df)
    IN  IF Len(appended) > 10
        THEN [history |-> Tail(appended), index |-> index + 1 - 1]
        ELSE [history |-> appended, index |-> index + 1]

\* ProcessingHistory.undo
undo(history, index) ==
    IF index > 0 THEN [index |-> index - 1, ret |-> <<history[index]>>]
    ELSE [index |-> index, ret |-> None]

\* redo that returns the state it leaves
redo_stale(history, index) ==
    IF index < Len(history) - 1 THEN [index |-> index + 1, ret |-> <<history[index + 1]>>]
    ELSE [index |-> index, ret |-> None]

\* ProcessingHistory.redo
redo(history, index) ==
    IF index < Len(history) - 1 THEN [index |-> index + 1, ret |-> <<history[index + 2]>>]
    ELSE [index |-> index, ret |-> None]

\* ProcessingHistory.__init__
HistInit ==
    /\ h_history = <<>>
    /\ h_index = -1
    /\ h_ret = None
    /\ h_adds = 0
    /\ h_call = [op |-> "__init__", index |-> -1, current |-> None,
                 after |-> "", after_returned |-> FALSE]

Called(op) ==
    h_call' = [op |-> op, index |-> h_index, current |-> current_state(h_history, h_index),
               after |-> h_call.op, after_returned |-> h_ret # None]

HistOther == <<arr_vars, bucket_vars, loan_vars, risk_vars, dash_vars,
               prog_vars, upload_vars, branch_vars, page_vars>>

\* history.add_state(df) with a new frame
AddState ==
    /\ h_adds >= 0 /\ h_adds < MaxAdds
    /\ \E out \in {add_state(h_history, h_index, h_adds + 1)} :
          /\ h_history' = out.history
          /\ h_index' = out.index
    /\ h_adds' = h_adds + 1
    /\ h_ret' = None
    /\ Called("add_state")
    /\ UNCHANGED HistOther

\* history.undo()
Undo ==
    /\ h_adds >= 0
    /\ \E out \in {undo(h_history, h_index)} :
          /\ h_index' = out.index
          /\ h_ret' = out.ret
    /\ Called("undo")
    /\ UNCHANGED <<h_history, h_adds, HistOther>>

\* history.redo()
Redo ==
    /\ h_adds >= 0
    /\ \E out \in {redo(h_history, h_index)} :
          /\ h_index' = out.index
          /\ h_ret' = out.ret
    /\ Called("redo")
    /\ UNCHANGED <<h_history, h_adds, HistOther>>

HistNext == AddState \/ Undo \/ Redo

InitHistory == HistInit /\ CoreIdle /\ ProgIdle /\ UploadIdle /\ BranchIdle /\ PageIdle

SpecHistory == InitHistory /\ [][HistNext]_vars

\* C29: the history holds at most 10 states; current_index is -1 exactly when
\* the history is empty and otherwise lies in 0..len(history)-1; right after
\* add_state, current_index is the index of the last element, the state added.
C29_HistoryBounded ==
    h_adds >= 0 =>
        /\ Len(h_history) <= 10
        /\ h_index = -1 <=> h_history = <<>>
        /\ h_history # <<>> => h_index \in 0..(Len(h_history) - 1)
        /\ h_call.op = "add_state" =>
              /\ h_index = Len(h_history) - 1
              /\ h_history[Len(h_history)] = h_adds

\* an add_state that dropped the oldest of ten states
C29_Witness ==
    /\ h_adds >= 0 /\ h_call.op = "add_state"
    /\ Len(h_history) = 10 /\ h_history[1] = 2 /\ h_index = 9 /\ h_call.index = 9

\* C30: a redo right after an undo that returned a state returns the state that
\* was current before the undo and restores current_index; an add_state after
\* an undo drops the states after the current one, and a redo right after it
\* returns None.
C30_UndoRedo ==
    [][/\ (h_call.op = "undo" /\ h_ret # None /\ h_call'.op = "redo") =>
              /\ h_ret' = h_call.current
              /\ h_index' = h_call.index
       /\ (h_call.op = "undo" /\ h_call'.op = "add_state") =>
              h_history' = Append(SubSeq(h_history, 1, h_index + 1), h_adds')
       /\ (h_call.op = "add_state" /\ h_call.after = "undo" /\ h_call'.op = "redo") =>
              /\ h_ret' = None
              /\ h_index' = h_index
      ]_vars

\* a redo right after an undo from the last of four states: the fourth state is
\* returned and current again
C30_Witness ==
    /\ h_adds >= 0 /\ h_call.op = "redo" /\ h_call.after = "undo" /\ h_call.after_returned
    /\ Len(h_history) = 4 /\ h_call.index = 2 /\ h_index = 3 /\ h_ret = <<h_history[4]>>

====
